---- MODULE Spec2Model ----
(***************************************************************************)
(* Verification model of the core of idp_software: collation of events     *)
(* into stations (Events.cpp, Stations.cpp), combination of quality flags  *)
(* (globalFunctions.cpp) and reconciliation of contributions               *)
(* (EventData.cpp) on top of the memory arena (RMemArea.cpp).              *)
(*                                                                         *)
(* Conventions.  Lists are TLA+ sequences; the code's 0-based indices are  *)
(* kept and translated by At / IndexOf.  A double is modelled as an exact  *)
(* number: times are counted in 0.01 day (so the code's "+0.01" is +1),    *)
(* positions lie on one meridian and are counted in km of meridian arc     *)
(* (fac * latitude, where distance() returns fabs(fac*dlat)), and a mean   *)
(* is the exact fraction sum / count.                                      *)
(***************************************************************************)
EXTENDS Integers, Sequences, FiniteSets, TLC

VARIABLES
  \* ---- quality flag combination
  qfIn, qfOut,
  \* ---- station collation
  db, tol, pc, stations, noStNameEvents, evtNumbers, stationsNn, mergeI, sl,
  \* ---- Station objects under arbitrary addEvent / addStation calls
  pool,
  \* ---- one EventData object: its input, its fields, the number of
  \*      getValues calls made so far, the result of the last call, and the
  \*      info files written so far
  edIn, ed, edCalls, edOut, infoWrites,
  \* ---- one RMemArea: the object, the last call made on it and the number
  \*      of request calls made
  area, arCall, arCount,
  \* ---- a second RMemArea without block info array that receives the calls
  \*      made on area
  areaMap,
  \* ---- the three arenas of an EventData under construction and the
  \*      position of the constructor
  edMem, edStep,
  \* ---- an RRandomVar object and the values its median() calls returned
  rv, rvOut

qfVars   == <<qfIn, qfOut>>
collVars == <<db, tol, pc, stations, noStNameEvents, evtNumbers, stationsNn,
              mergeI, sl>>
edVars   == <<edIn, ed, edCalls, edOut, infoWrites>>
arVars   == <<area, arCall, arCount, areaMap, edMem, edStep, rv, rvOut>>
vars     == <<qfVars, collVars, pool, edVars, arVars>>

(***************************************************************************)
(* Generic list helpers (QList / QStringList).                             *)
(***************************************************************************)
At(s, i) == s[i + 1]

RECURSIVE IndexFrom(_, _, _)
IndexFrom(s, x, i) ==
  IF i > Len(s) THEN -1
  ELSE IF s[i] = x THEN i - 1 ELSE IndexFrom(s, x, i + 1)

IndexOf(s, x) == IndexFrom(s, x, 1)

Contains(s, x) == \E i \in 1..Len(s) : s[i] = x

TakeAt(s, i) == SubSeq(s, 1, i) \o SubSeq(s, i + 2, Len(s))

Replace(s, i, x) == [s EXCEPT ![i + 1] = x]

(***************************************************************************)
(* Quality flags: globalVars.h tables and combinedSdnQualityFlag.          *)
(***************************************************************************)
sdnQFlags       == <<"0","1","2","3","4","5","6","7","8","9","A","B","Q">>
\* the table with the entries of '3' and '4' exchanged (a plausible slip)
mappedOdvQFlagsSwapped == <<"1","0","0","8","4","0","0","1","1","1","1","1","0">>

mappedOdvQFlags == <<"1","0","0","4","8","0","0","1","1","1","1","1","0">>
odvQFlags       == <<"0","1","4","8">>
mappedSdnQFlags == <<"1","0","3","4">>

\* the character code of a flag character (the order qMax compares chars by)
CharCode(c) ==
  CASE c = "0" -> 48 [] c = "1" -> 49 [] c = "2" -> 50 [] c = "3" -> 51
    [] c = "4" -> 52 [] c = "5" -> 53 [] c = "6" -> 54 [] c = "7" -> 55
    [] c = "8" -> 56 [] c = "9" -> 57 [] c = "A" -> 65 [] c = "B" -> 66
    [] c = "Q" -> 81

qMaxChar(a, b) == IF CharCode(a) < CharCode(b) THEN b ELSE a

\* the loop of combinedSdnQualityFlag from index i on; acc = <<m, odvQf>>
RECURSIVE CombineLoop(_, _, _)
CombineLoop(sdnFlags, i, acc) ==
  IF i > Len(sdnFlags) THEN acc
  ELSE IF sdnFlags[i] = "9" THEN CombineLoop(sdnFlags, i + 1, acc)
  ELSE CombineLoop(sdnFlags, i + 1,
         <<acc[1] + 1,
           qMaxChar(acc[2], At(mappedOdvQFlags, IndexOf(sdnQFlags, sdnFlags[i])))>>)

\* a plain maximum over the original codes (what the combiner is not)
RECURSIVE MaxCodeLoop(_, _, _)
MaxCodeLoop(sdnFlags, i, acc) ==
  IF i > Len(sdnFlags) THEN acc
  ELSE MaxCodeLoop(sdnFlags, i + 1, qMaxChar(acc, sdnFlags[i]))

combinedByMaxCode(sdnFlags) ==
  IF Len(sdnFlags) = 0 THEN "9" ELSE MaxCodeLoop(sdnFlags, 1, "0")

combinedSdnQualityFlag(sdnFlags) ==
  LET r == CombineLoop(sdnFlags, 1, <<0, "0">>)
  IN  IF r[1] = 0 THEN "9" ELSE At(mappedSdnQFlags, IndexOf(odvQFlags, r[2]))


(***************************************************************************)
(* Exact fractions, standing for the doubles of StationInfo.               *)
(***************************************************************************)
missDOUBLE == -1000000

Rat(n, d)    == [num |-> n, den |-> d]
RatOfInt(k)  == Rat(k, 1)
RatSub(a, b) == Rat(a.num * b.den - b.num * a.den, a.den * b.den)
RatAddInt(a, k) == Rat(a.num + k * a.den, a.den)
RatFabs(a)   == IF a.num < 0 THEN Rat(-a.num, a.den) ELSE a
RatEq(a, b)  == a.num * b.den = b.num * a.den
RatLt(a, b)  == a.num * b.den < b.num * a.den
RatLtInt(a, k) == a.num < k * a.den

RECURSIVE SumOf(_, _)
SumOf(s, i) == IF i > Len(s) THEN 0 ELSE s[i] + SumOf(s, i + 1)

\* RRandomVar::mean over a list without missing values
RRandomVarMean(vals) ==
  IF Len(vals) > 0 THEN Rat(SumOf(vals, 1), Len(vals)) ELSE RatOfInt(missDOUBLE)

(***************************************************************************)
(* Station (Stations.h / Stations.cpp).                                    *)
(***************************************************************************)
EmptyStation ==
  [cruiseLbl |-> "", ids |-> <<>>, stationLbls |-> <<>>, eventInfos |-> <<>>]

addStationLabel(st, lbl) ==
  IF ~(lbl = "" \/ Contains(st.stationLbls, lbl))
  THEN [st EXCEPT !.stationLbls = Append(@, lbl)]
  ELSE st

\* Station::addEvent with a cruise check left out (a plausible slip)
addEventNoCruiseCheck(st, bodcEventNumber) ==
  IF Contains(st.ids, bodcEventNumber) \/ bodcEventNumber \notin DOMAIN db
  THEN [st |-> st, ok |-> FALSE]
  ELSE LET ei == db[bodcEventNumber]
           s1 == IF Len(st.ids) = 0 THEN [st EXCEPT !.cruiseLbl = ei.cruiseLbl]
                 ELSE st
       IN  [st |-> addStationLabel(
                     [s1 EXCEPT !.ids = Append(@, bodcEventNumber),
                                !.eventInfos = Append(@, ei)], ei.stationLbl),
            ok |-> TRUE]

\* Station::addEvent: the station after the call and the returned bool
addEvent(st, bodcEventNumber) ==
  IF Contains(st.ids, bodcEventNumber) \/ bodcEventNumber \notin DOMAIN db
  THEN [st |-> st, ok |-> FALSE]
  ELSE LET ei == db[bodcEventNumber]
           s1 == IF Len(st.ids) = 0 THEN [st EXCEPT !.cruiseLbl = ei.cruiseLbl]
                 ELSE st
       IN  IF s1.cruiseLbl = ei.cruiseLbl
           THEN [st |-> addStationLabel(
                          [s1 EXCEPT !.ids = Append(@, bodcEventNumber),
                                     !.eventInfos = Append(@, ei)], ei.stationLbl),
                 ok |-> TRUE]
           ELSE [st |-> s1, ok |-> FALSE]

\* Station::Station(eventsDB, bodcEventNumber)
StationOf(bodcEventNumber) ==
  IF bodcEventNumber \notin DOMAIN db THEN EmptyStation
  ELSE addEvent(EmptyStation, bodcEventNumber).st

addStation(this, st) ==
  IF this.cruiseLbl # st.cruiseLbl THEN this
  ELSE [this EXCEPT !.ids = @ \o st.ids, !.eventInfos = @ \o st.eventInfos]

stationKey(cruiseLbl, stationLbl) == cruiseLbl \o "::" \o stationLbl

(***************************************************************************)
(* StationInfo: the mean time and mean position of a station.              *)
(***************************************************************************)
StationInfo(st) ==
  [meanTime |-> RRandomVarMean([i \in 1..Len(st.eventInfos) |-> st.eventInfos[i].gd]),
   meanKm   |-> RRandomVarMean([i \in 1..Len(st.eventInfos) |-> st.eventInfos[i].km])]

timeFrom(si, refGregDay) == RatSub(si.meanTime, refGregDay)

distanceFrom(si, refKm) == RatFabs(RatSub(si.meanKm, refKm))

\* fabs(dTime)<timeTolerance && dDist<distanceTolerance
WithinTolerance(si, refTime, refKm) ==
  /\ RatLtInt(RatFabs(timeFrom(si, refTime)), tol.time)
  /\ RatLtInt(distanceFrom(si, refKm), tol.dist)


(***************************************************************************)
(* Inputs of the collation: the events table and the tolerances.           *)
(***************************************************************************)
NumEvents == 3

EventIds == 1..NumEvents

\* cruise labels and station keys in the order a QMap<QString,..> keeps them
SortedCruises == <<"A", "B">>
SortedKeys    == <<"A::s1", "A::s2", "A::s::s1", "A::s::s::s1",
                   "B::s1", "B::s2">>
StationLabels == {"", "s1"}

\* sample points <<time in 0.01 day, position in km>>: two points 10 km
\* apart, one 30 km away at the same time, one 60 km away 0.01 day later,
\* and one at the first position 6 days later
Places == {<<0, 0>>, <<0, 10>>, <<0, 30>>, <<1, 60>>, <<600, 0>>}

\* distanceTolerance = 15 km, timeTolerance = 5 days
Tolerances == {[dist |-> 15, time |-> 500]}

(***************************************************************************)
(* EventsDB::collateStationsByStationLabel.                                *)
(***************************************************************************)
\* the loop over eventNumbers from index i on; map is the QMap<QString,Station>
RECURSIVE LabelLoop(_, _, _, _)
LabelLoop(eventNumbers, i, map, noName) ==
  IF i > Len(eventNumbers) THEN [map |-> map, noName |-> noName]
  ELSE LET evtNumber  == eventNumbers[i]
           stationLbl == db[evtNumber].stationLbl
           key        == stationKey(db[evtNumber].cruiseLbl, stationLbl)
       IN  IF stationLbl = ""
           THEN LabelLoop(eventNumbers, i + 1, map, Append(noName, evtNumber))
           ELSE IF key \in DOMAIN map
           THEN LabelLoop(eventNumbers, i + 1,
                          [map EXCEPT ![key] = addEvent(map[key], evtNumber).st],
                          noName)
           ELSE LabelLoop(eventNumbers, i + 1,
                          [k \in DOMAIN map \cup {key} |->
                             IF k = key THEN StationOf(evtNumber) ELSE map[k]],
                          noName)

\* QMap::values(): the values in ascending key order
RECURSIVE MapValues(_, _)
MapValues(map, i) ==
  IF i > Len(SortedKeys) THEN <<>>
  ELSE (IF SortedKeys[i] \in DOMAIN map THEN <<map[SortedKeys[i]]>> ELSE <<>>)
       \o MapValues(map, i + 1)

collateStationsByStationLabel(eventNumbers) ==
  LET r == LabelLoop(eventNumbers, 1, <<>>, <<>>)
  IN  [sl |-> MapValues(r.map, 1), noNameEventNumbers |-> r.noName]

(***************************************************************************)
(* EventsDB::collateStationsByProximity, proximity pass: one turn of the   *)
(* do-while loop builds one cluster.                                       *)
(***************************************************************************)
\* a scan of the remaining ids from the first to the last instead (not
\* what the code does): i candidates
\* are still to be examined after the one at index Len(evts)-1-i
RECURSIVE ProxScanForward(_, _, _)
ProxScanForward(i, st, evts) ==
  IF i < 0 THEN [st |-> st, evts |-> evts]
  ELSE IF WithinTolerance(StationInfo(st),
                          RatOfInt(db[At(evts, Len(evts) - 1 - i)].gd),
                          RatOfInt(db[At(evts, Len(evts) - 1 - i)].km))
       THEN IF addEvent(st, At(evts, Len(evts) - 1 - i)).ok
            THEN ProxScanForward(i - 1,
                                 addEvent(st, At(evts, Len(evts) - 1 - i)).st,
                                 TakeAt(evts, Len(evts) - 1 - i))
            ELSE ProxScanForward(i - 1, st, evts)
       ELSE ProxScanForward(i - 1, st, evts)

\* the for loop i = n .. 0 (0-based) over the remaining ids
RECURSIVE ProxScan(_, _, _)
ProxScan(i, st, evts) ==
  IF i < 0 THEN [st |-> st, evts |-> evts]
  ELSE LET si == StationInfo(st)
           evtNumber == At(evts, i)
           ei == db[evtNumber]
       IN  IF WithinTolerance(si, RatOfInt(ei.gd), RatOfInt(ei.km))
           THEN LET r == addEvent(st, evtNumber)
                IN  IF r.ok THEN ProxScan(i - 1, r.st, TakeAt(evts, i))
                    ELSE ProxScan(i - 1, r.st, evts)
           ELSE ProxScan(i - 1, st, evts)

ProxTurn(evts) ==
  LET rest == Tail(evts)
  IN  ProxScan(Len(rest) - 1, StationOf(Head(evts)), rest)

(***************************************************************************)
(* Merge pass: the body of the loop over the clusters, for cluster i.      *)
(***************************************************************************)
\* the inner loop over the labeled stations from index j on: the index of
\* the first labeled station within tolerance, or -1
RECURSIVE FirstMatch(_, _, _)
FirstMatch(labeled, st, j) ==
  IF j >= Len(labeled) THEN -1
  ELSE LET si == StationInfo(st)
       IN  IF WithinTolerance(StationInfo(At(labeled, j)), si.meanTime, si.meanKm)
           THEN j
           ELSE FirstMatch(labeled, st, j + 1)

MergeTurn(labeled, clusters, i) ==
  LET st == At(clusters, i)
      j  == FirstMatch(labeled, st, 0)
  IN  IF j = -1 THEN [labeled |-> labeled, clusters |-> clusters]
      ELSE [labeled  |-> Replace(labeled, j, addStation(At(labeled, j), st)),
            clusters |-> TakeAt(clusters, i)]


(***************************************************************************)
(* StationList::autoAssignStationLabels.  sortedStats, a QMap<double,int>, *)
(* is the list of its <<key, value>> entries in ascending key order.       *)
(***************************************************************************)
QMapContains(m, key) == \E e \in 1..Len(m) : RatEq(m[e][1], key)

\* an insert that keeps the order of insertion instead of the key order
QMapInsertUnsorted(m, key, val) ==
  IF QMapContains(m, key)
  THEN [e \in 1..Len(m) |-> IF RatEq(m[e][1], key) THEN <<key, val>> ELSE m[e]]
  ELSE Append(m, <<key, val>>)

\* QMap::insert: replaces the value of an equal key, else inserts in order
QMapInsert(m, key, val) ==
  IF QMapContains(m, key)
  THEN [e \in 1..Len(m) |-> IF RatEq(m[e][1], key) THEN <<key, val>> ELSE m[e]]
  ELSE LET below == Cardinality({e \in 1..Len(m) : RatLt(m[e][1], key)})
       IN  SubSeq(m, 1, below) \o <<(<<key, val>>)>> \o SubSeq(m, below + 1, Len(m))

\* StationList::cruiseLabelList: the unique cruise labels in key order
cruiseLabelList(list) ==
  SelectSeq(SortedCruises, LAMBDA c : \E i \in 1..Len(list) : list[i].cruiseLbl = c)

\* the loop over the stations from index j on, filling sortedStats
RECURSIVE SortLoop(_, _, _, _)
SortLoop(list, cruise, j, sortedStats) ==
  IF j >= Len(list) THEN sortedStats
  ELSE LET si == StationInfo(At(list, j))
       IN  IF At(list, j).cruiseLbl = cruise /\ Len(At(list, j).stationLbls) = 0
           THEN LET meanTime == IF QMapContains(sortedStats, si.meanTime)
                                THEN RatAddInt(si.meanTime, 1)
                                ELSE si.meanTime
                IN  SortLoop(list, cruise, j + 1, QMapInsert(sortedStats, meanTime, j))
           ELSE SortLoop(list, cruise, j + 1, sortedStats)

\* QString("(%1)").arg(n)
AutoLabel(n) == "(" \o ToString(n) \o ")"

\* the loop over sortedStats from entry e on: entry e gets the label "(e)"
RECURSIVE AssignLoop(_, _, _)
AssignLoop(list, sortedStats, e) ==
  IF e > Len(sortedStats) THEN list
  ELSE LET j == sortedStats[e][2]
       IN  AssignLoop(Replace(list, j, [At(list, j) EXCEPT !.stationLbls = <<AutoLabel(e)>>]),
                      sortedStats, e + 1)

\* the loop over the cruises from index i on
RECURSIVE CruiseLoop(_, _, _)
CruiseLoop(list, cruiseLbls, i) ==
  IF i > Len(cruiseLbls) THEN list
  ELSE CruiseLoop(AssignLoop(list, SortLoop(list, cruiseLbls[i], 0, <<>>), 1),
                  cruiseLbls, i + 1)

autoAssignStationLabels(list) == CruiseLoop(list, cruiseLabelList(list), 1)

(***************************************************************************)
(* EventsDB::collateStations as a state machine.  pc is the position in    *)
(* the call: "label", "prox" (one cluster per step), "merge" (one cluster  *)
(* per step), "auto", "done".                                              *)
(***************************************************************************)
EventAttrs == [c : {SortedCruises[i] : i \in 1..Len(SortedCruises)},
               l : StationLabels, p : Places]

InputEventNumbers == [i \in 1..NumEvents |-> i]

QfIdle == /\ qfIn = <<>>
          /\ qfOut = "-"

RvIdle == /\ rv = <<>>
          /\ rvOut = <<>>
          /\ areaMap = <<>>

EdmIdle == /\ edMem = <<>>
           /\ edStep = <<>>
           /\ RvIdle

ArIdle == /\ area = <<>>
          /\ arCall = <<>>
          /\ arCount = -1
          /\ EdmIdle

EdIdle == /\ edIn = <<>>
          /\ ed = <<>>
          /\ edCalls = -1
          /\ edOut = <<>>
          /\ infoWrites = <<>>

CollIdle == /\ db = <<>>
            /\ tol = [dist |-> 0, time |-> 0]
            /\ pc = "idle"
            /\ stations = <<>>
            /\ noStNameEvents = <<>>
            /\ evtNumbers = <<>>
            /\ stationsNn = <<>>
            /\ mergeI = -1
            /\ sl = <<>>

CollInit ==
  /\ \E f \in [EventIds -> EventAttrs] :
       db = [i \in EventIds |->
               [eventNumber |-> i, cruiseLbl |-> f[i].c, stationLbl |-> f[i].l,
                gd |-> f[i].p[1], km |-> f[i].p[2]]]
  /\ tol \in Tolerances
  /\ pc = "label"
  /\ stations = <<>>
  /\ noStNameEvents = <<>>
  /\ evtNumbers = <<>>
  /\ stationsNn = <<>>
  /\ mergeI = -1
  /\ sl = <<>>
  /\ QfIdle
  /\ pool = <<>>
  /\ EdIdle
  /\ ArIdle

\* after the passes of collateStationsByProximity that remain, the position
AfterProx(labeled, clusters, rest) ==
  IF Len(rest) > 0 THEN "prox"
  ELSE IF Len(labeled) > 0 /\ Len(clusters) > 0 THEN "merge"
  ELSE "auto"

LabelPass ==
  /\ pc = "label"
  /\ LET r == collateStationsByStationLabel(InputEventNumbers)
     IN  /\ stations' = r.sl
         /\ noStNameEvents' = r.noNameEventNumbers
         /\ evtNumbers' = r.noNameEventNumbers
         /\ pc' = AfterProx(r.sl, <<>>, r.noNameEventNumbers)
  /\ UNCHANGED <<db, tol, stationsNn, mergeI, sl, qfVars, pool, edVars, arVars>>

ProxStep ==
  /\ pc = "prox"
  /\ LET r == ProxTurn(evtNumbers)
     IN  /\ stationsNn' = Append(stationsNn, r.st)
         /\ evtNumbers' = r.evts
         /\ pc' = AfterProx(stations, stationsNn', r.evts)
         /\ mergeI' = IF Len(r.evts) = 0 THEN Len(stationsNn') - 1 ELSE mergeI
  /\ UNCHANGED <<db, tol, stations, noStNameEvents, sl, qfVars, pool, edVars, arVars>>

MergeStep ==
  /\ pc = "merge"
  /\ mergeI >= 0
  /\ LET r == MergeTurn(stations, stationsNn, mergeI)
     IN  /\ stations' = r.labeled
         /\ stationsNn' = r.clusters
  /\ mergeI' = mergeI - 1
  /\ pc' = IF mergeI = 0 THEN "auto" ELSE "merge"
  /\ UNCHANGED <<db, tol, noStNameEvents, evtNumbers, sl, qfVars, pool, edVars, arVars>>

\* the tail of collateStations: auto-label the standalone list and return
\* the labeled Stations followed by the standalone ones
AutoLabelStep ==
  /\ pc = "auto"
  /\ stationsNn' = autoAssignStationLabels(stationsNn)
  /\ sl' = stations \o stationsNn'
  /\ pc' = "done"
  /\ UNCHANGED <<db, tol, stations, noStNameEvents, evtNumbers, mergeI, qfVars, pool, edVars, arVars>>

CollNext == LabelPass \/ ProxStep \/ MergeStep \/ AutoLabelStep

Spec == CollInit /\ [][CollNext]_vars


(***************************************************************************)
(* Station objects under any sequence of constructor, addEvent and         *)
(* addStation calls: pool holds two Station objects; event number 0 is in  *)
(* no events table.                                                        *)
(***************************************************************************)
MaxStationLen == 3

PoolInit ==
  /\ \E f \in [EventIds -> {a \in EventAttrs : a.p = <<0, 0>> /\ a.l = ""}] :
       db = [i \in EventIds |->
               [eventNumber |-> i, cruiseLbl |-> f[i].c, stationLbl |-> f[i].l,
                gd |-> f[i].p[1], km |-> f[i].p[2]]]
  /\ tol \in Tolerances
  /\ pc = "pool"
  /\ stations = <<>>
  /\ noStNameEvents = <<>>
  /\ evtNumbers = <<>>
  /\ stationsNn = <<>>
  /\ mergeI = -1
  /\ sl = <<>>
  /\ QfIdle
  /\ pool = <<EmptyStation, EmptyStation>>
  /\ EdIdle
  /\ ArIdle

PoolFrame == UNCHANGED <<collVars, qfVars, edVars, arVars>>

PoolNewStation ==
  /\ pc = "pool"
  /\ \E k \in DOMAIN pool, id \in EventIds \cup {0} :
       pool' = [pool EXCEPT ![k] = StationOf(id)]
  /\ PoolFrame

PoolAddEvent ==
  /\ pc = "pool"
  /\ \E k \in DOMAIN pool, id \in EventIds \cup {0} :
       pool' = [pool EXCEPT ![k] = addEvent(pool[k], id).st]
  /\ PoolFrame

PoolAddStation ==
  /\ pc = "pool"
  /\ \E k \in DOMAIN pool, m \in DOMAIN pool :
       /\ k # m
       /\ Len(pool[k].ids) + Len(pool[m].ids) <= MaxStationLen
       /\ pool' = [pool EXCEPT ![k] = addStation(pool[k], pool[m])]
  /\ PoolFrame

PoolNext == PoolNewStation \/ PoolAddEvent \/ PoolAddStation

\* collateStations on every input, and Station objects under any calls
SpecStations == (CollInit \/ PoolInit) /\ [][CollNext \/ PoolNext]_vars

(***************************************************************************)
(* C1: in every Station built by collateStations, and in every Station     *)
(* after any sequence of constructor / addEvent / addStation calls, every  *)
(* contained event has the cruise label of the Station.                    *)
(***************************************************************************)
SameCruise(st) ==
  \A i \in 1..Len(st.eventInfos) : st.eventInfos[i].cruiseLbl = st.cruiseLbl

AllSameCruise(list) == \A i \in 1..Len(list) : SameCruise(list[i])

C1_EventsShareCruise ==
  /\ AllSameCruise(stations)
  /\ AllSameCruise(stationsNn)
  /\ AllSameCruise(sl)
  /\ AllSameCruise(pool)

\* a returned Station holds a labeled event and a merged-in unlabeled one
\* while an event of another cruise lies at the very same place
C1_Witness ==
  /\ pc = "done"
  /\ \E s \in 1..Len(sl) :
       /\ \E a, b \in 1..Len(sl[s].eventInfos) :
            /\ sl[s].eventInfos[a].stationLbl # ""
            /\ sl[s].eventInfos[b].stationLbl = ""
       /\ \E e \in EventIds :
            /\ db[e].cruiseLbl # sl[s].cruiseLbl
            /\ db[e].gd = sl[s].eventInfos[1].gd
            /\ db[e].km = sl[s].eventInfos[1].km


(***************************************************************************)
(* C2: merge pass.  The clusters are visited from the last one created to  *)
(* the first; for the first labeled Station (forward order) within         *)
(* tolerance of the cluster, all events of the cluster are appended to     *)
(* that Station and to no other and the cluster leaves the standalone      *)
(* list; without a match the cluster stays with its events unchanged.      *)
(***************************************************************************)
MatchesOf(st) ==
  {j \in 1..Len(stations) :
     WithinTolerance(StationInfo(stations[j]), StationInfo(st).meanTime,
                     StationInfo(st).meanKm)}

MinOf(S) == CHOOSE x \in S : \A y \in S : x <= y

MergeAsClaimed ==
  LET st == At(stationsNn, mergeI)
      M  == MatchesOf(st)
  IN  IF M = {}
      THEN stations' = stations /\ stationsNn' = stationsNn
      ELSE /\ Len(stations') = Len(stations)
           /\ \A j \in 1..Len(stations) :
                IF j = MinOf(M)
                THEN /\ stations'[j].ids = stations[j].ids \o st.ids
                     /\ stations'[j].eventInfos = stations[j].eventInfos \o st.eventInfos
                ELSE stations'[j] = stations[j]
           /\ stationsNn' = TakeAt(stationsNn, mergeI)

C2_MergeAppendsCluster ==
  [][ /\ (pc = "prox" /\ pc' = "merge" => mergeI' = Len(stationsNn') - 1)
      /\ (pc = "merge" => mergeI' = mergeI - 1 /\ MergeAsClaimed) ]_vars

(***************************************************************************)
(* C3: auto-label pass.  For each cruise the k standalone Stations (all    *)
(* unlabeled before the pass) end with exactly one label each, the labels  *)
(* are exactly "(1)" .. "(k)", and a Station with a smaller mean time has  *)
(* the smaller number.                                                     *)
(***************************************************************************)
OfCruise(list, c) == {i \in 1..Len(list) : list[i].cruiseLbl = c}

LabelNumber(st) == CHOOSE n \in 1..NumEvents : st.stationLbls = <<AutoLabel(n)>>

C3_AutoLabelsComplete ==
  pc = "done" =>
    \A c \in {stationsNn[i].cruiseLbl : i \in 1..Len(stationsNn)} :
      LET S == OfCruise(stationsNn, c)
      IN  /\ \A i \in S : Len(stationsNn[i].stationLbls) = 1
          /\ {stationsNn[i].stationLbls : i \in S} =
               {<<AutoLabel(n)>> : n \in 1..Cardinality(S)}
          /\ \A i, j \in S :
               RatLt(StationInfo(stationsNn[i]).meanTime,
                     StationInfo(stationsNn[j]).meanTime)
                 => LabelNumber(stationsNn[i]) < LabelNumber(stationsNn[j])


(***************************************************************************)
(* combinedSdnQualityFlag applied to every list of up to MaxFlags codes.   *)
(***************************************************************************)
MaxFlags == 2

FlagVocabulary == {sdnQFlags[i] : i \in 1..Len(sdnQFlags)}

QfInit ==
  /\ qfIn \in UNION {[1..n -> FlagVocabulary] : n \in 0..MaxFlags}
  /\ qfOut = "-"
  /\ CollIdle
  /\ pool = <<>>
  /\ EdIdle
  /\ ArIdle

QfCombine ==
  /\ qfOut = "-"
  /\ qfOut' = combinedSdnQualityFlag(qfIn)
  /\ UNCHANGED <<qfIn, collVars, pool, edVars, arVars>>

QfNext == QfCombine

SpecQF == QfInit /\ [][QfNext]_vars

(***************************************************************************)
(* C8: combinedSdnQualityFlag gives '4' for ['0','4'], '9' for ['9','9']   *)
(* and, as claimed, '1' for ['9','0'] (C8_Examples); as amended, '0' for   *)
(* ['9','0'] (C8_ExamplesAmended).                                         *)
(***************************************************************************)
C8_Examples ==
  qfOut # "-" =>
    /\ (qfIn = <<"0", "4">> => qfOut = "4")
    /\ (qfIn = <<"9", "9">> => qfOut = "9")
    /\ (qfIn = <<"9", "0">> => qfOut = "1")

C8_ExamplesAmended ==
  qfOut # "-" =>
    /\ (qfIn = <<"0", "4">> => qfOut = "4")
    /\ (qfIn = <<"9", "9">> => qfOut = "9")
    /\ (qfIn = <<"9", "0">> => qfOut = "0")

C8_Witness == qfOut # "-" /\ qfIn = <<"9", "0">>

(***************************************************************************)
(* C9: the combiner equals the reference: drop the '9's; '9' if nothing    *)
(* is left; else map each code to a severity, take the greatest severity   *)
(* under '0' < '1' < '4' < '8' and map it back by '0'->'1', '1'->'0',      *)
(* '4'->'3', '8'->'4'.  C9_ClaimedTable is the severity table as claimed   *)
(* ('5','6','7','8','A','B' -> '1'), C9_AmendedTable has '5','6' -> '0'.   *)
(***************************************************************************)
SeverityRank(s) == CASE s = "0" -> 0 [] s = "1" -> 1 [] s = "4" -> 2 [] s = "8" -> 3

BackMap(s) == CASE s = "0" -> "1" [] s = "1" -> "0" [] s = "4" -> "3" [] s = "8" -> "4"

ClaimedSeverity(c) ==
  CASE c = "0" -> "1" [] c = "1" -> "0" [] c = "2" -> "0" [] c = "3" -> "4"
    [] c = "4" -> "8" [] c \in {"5", "6", "7", "8", "A", "B"} -> "1"
    [] c = "Q" -> "0"

AmendedSeverity(c) ==
  CASE c = "0" -> "1" [] c = "1" -> "0" [] c = "2" -> "0" [] c = "3" -> "4"
    [] c = "4" -> "8" [] c \in {"5", "6"} -> "0"
    [] c \in {"7", "8", "A", "B"} -> "1" [] c = "Q" -> "0"

Reference(flags, Severity(_)) ==
  LET kept == {i \in 1..Len(flags) : flags[i] # "9"}
      sev  == {Severity(flags[i]) : i \in kept}
  IN  IF kept = {} THEN "9"
      ELSE BackMap(CHOOSE s \in sev : \A t \in sev : SeverityRank(t) <= SeverityRank(s))

C9_CombinerIsClaimedReference ==
  qfOut # "-" => qfOut = Reference(qfIn, ClaimedSeverity)

C9_CombinerIsAmendedReference ==
  qfOut # "-" => qfOut = Reference(qfIn, AmendedSeverity)

C9_Witness == qfOut # "-" /\ qfIn = <<"5", "7">> /\ qfOut = "0"

(***************************************************************************)
(* Parameter names (Params.cpp).  A name is the list of its pieces, e.g.   *)
(* "P_BOTTLE::b1" is <<"P", "_BOTTLE", "::", "b1">>, so that splitting at  *)
(* "::", cutting at the sampling suffix and re-joining are computed.       *)
(***************************************************************************)
RECURSIVE SplitLoop(_, _, _, _)
SplitLoop(s, i, cur, acc) ==
  IF i > Len(s) THEN Append(acc, cur)
  ELSE IF s[i] = "::" THEN SplitLoop(s, i + 1, <<>>, Append(acc, cur))
       ELSE SplitLoop(s, i + 1, Append(cur, s[i]), acc)

\* QString::split("::")
Split(s) == SplitLoop(s, 1, <<>>, <<>>)

\* prmName + "::" + barcode
JoinExtended(prmName, barcode) == prmName \o <<"::">> \o barcode

paramNameFromExtendedName(extPrmName) ==
  LET parts == Split(extPrmName)
  IN  [name |-> At(parts, 0), barcode |-> At(parts, 1)]

\* the sampling systems in the order samplingSystem() tests their suffixes
SamplingSystems ==
  << <<"SensorSS", "_SENSOR">>, <<"BottleSS", "_BOTTLE">>,
     <<"BoatPumpSS", "_BOAT_PUMP">>, <<"MeltpondPumpSS", "_MELTPOND_PUMP">>,
     <<"SubicePumpSS", "_SUBICE_PUMP">>, <<"PumpSS", "_PUMP">>,
     <<"UwaySS", "_UWAY">>, <<"FishSS", "_FISH">>, <<"HivolSS", "_HIVOL">>,
     <<"LowvolSS", "_LOWVOL">>, <<"CoarseImpactorSS", "_COARSE_IMPACTOR">>,
     <<"FineImpactorSS", "_FINE_IMPACTOR">>, <<"AutoSS", "_AUTO">>,
     <<"ManSS", "_MAN">>, <<"GrabSS", "_GRAB">>, <<"CorerSS", "_CORER">> >>

EndsWith(prmName, suffix) ==
  Len(prmName) > 0 /\ prmName[Len(prmName)] = suffix

RECURSIVE SamplingSystemFrom(_, _)
SamplingSystemFrom(prmName, i) ==
  IF i > Len(SamplingSystems) THEN "UnknownSS"
  ELSE IF EndsWith(prmName, SamplingSystems[i][2]) THEN SamplingSystems[i][1]
       ELSE SamplingSystemFrom(prmName, i + 1)

samplingSystem(prmName) == SamplingSystemFrom(prmName, 1)

RECURSIVE SuffixFrom(_, _)
SuffixFrom(ss, i) ==
  IF i > Len(SamplingSystems) THEN ""
  ELSE IF SamplingSystems[i][1] = ss THEN SamplingSystems[i][2]
       ELSE SuffixFrom(ss, i + 1)

samplingSystemStr(prmSmplSytem) ==
  IF prmSmplSytem = "UnifiedSS" THEN "_UNIFIED" ELSE SuffixFrom(prmSmplSytem, 1)

\* n.indexOf(samplingSuffix) is 0 for the empty suffix of UnknownSS
unifiedNameLabel(prmName) ==
  LET ss     == samplingSystem(prmName)
      suffix == samplingSystemStr(ss)
      i      == IF suffix = "" THEN 0 ELSE IndexOf(prmName, suffix)
  IN  IF ss # "SensorSS" /\ i > -1 THEN SubSeq(prmName, 1, i) ELSE prmName

RECURSIVE Flatten(_)
Flatten(name) == IF name = <<>> THEN "" ELSE Head(name) \o Flatten(Tail(name))

(***************************************************************************)
(* indexx (globalFunctions.cpp): the heapsort index of Numerical Recipes.  *)
(* arrin and indx are the code's arrays; indx holds 1-based positions      *)
(* until the final pass subtracts 1.                                       *)
(***************************************************************************)
RECURSIVE IndexxSift(_, _, _, _, _, _)
IndexxSift(arrin, indx, q, i, j, ir) ==
  IF j > ir THEN [indx |-> indx, i |-> i]
  ELSE LET j2 == IF j < ir /\ arrin[indx[j]] < arrin[indx[j + 1]]
                 THEN j + 1 ELSE j
       IN  IF q < arrin[indx[j2]]
           THEN IndexxSift(arrin, [indx EXCEPT ![i] = indx[j2]], q,
                           j2, j2 + j2, ir)
           ELSE IndexxSift(arrin, indx, q, i, ir + 1, ir)

RECURSIVE IndexxLoop(_, _, _, _)
IndexxLoop(arrin, indx, l, ir) ==
  IF l > 1
  THEN LET l1    == l - 1
           indxt == indx[l1]
           r     == IndexxSift(arrin, indx, arrin[indxt], l1, 2 * l1, ir)
       IN  IndexxLoop(arrin, [r.indx EXCEPT ![r.i] = indxt], l1, ir)
  ELSE LET indxt == indx[ir]
           indx1 == [indx EXCEPT ![ir] = indx[1]]
           ir1   == ir - 1
       IN  IF ir1 = 1
           THEN LET fin == [indx1 EXCEPT ![1] = indxt]
                IN  [j \in 1..Len(fin) |-> fin[j] - 1]
           ELSE LET r == IndexxSift(arrin, indx1, arrin[indxt], l, 2 * l, ir1)
                IN  IndexxLoop(arrin, [r.indx EXCEPT ![r.i] = indxt], l, ir1)

indexx(n, arrin) ==
  IF n < 2 THEN [j \in 1..n |-> IF j = 1 THEN 0 ELSE j]
  ELSE IndexxLoop(arrin, [j \in 1..n |-> j], (n \div 2) + 1, n)

(***************************************************************************)
(* RRandomVar::median.  The values are even numbers, so the code's          *)
(* 0.5*(a+b) is the exact integer (a+b) \div 2.                            *)
(***************************************************************************)
RECURSIVE NonMissing(_)
NonMissing(vals) ==
  IF vals = <<>> THEN <<>>
  ELSE IF Head(vals) # missDOUBLE
       THEN <<Head(vals)>> \o NonMissing(Tail(vals))
       ELSE NonMissing(Tail(vals))

RRandomVarMeanInsteadOfMedian(vals) ==
  LET dWrk == NonMissing(vals)
  IN  IF Len(dWrk) = 0 THEN missDOUBLE ELSE SumOf(dWrk, 1) \div Len(dWrk)

\* a median that does not leave out the missing values
RRandomVarMedianWithMissing(vals) ==
  IF Len(vals) = 0 THEN missDOUBLE
  ELSE IF Len(vals) % 2 = 1
       THEN At(vals, At(indexx(Len(vals), vals), (Len(vals) - 1) \div 2))
       ELSE (At(vals, At(indexx(Len(vals), vals), (Len(vals) - 1) \div 2))
             + At(vals, At(indexx(Len(vals), vals), (Len(vals) - 1) \div 2 + 1)))
            \div 2

RRandomVarMedian(vals) ==
  LET dWrk == NonMissing(vals)
      n    == Len(dWrk)
  IN  IF n = 0 THEN missDOUBLE
      ELSE LET iWrk == indexx(n, dWrk)
               nc   == (n - 1) \div 2
               d    == At(dWrk, At(iWrk, nc))
           IN  IF n % 2 = 1 THEN d
               ELSE (d + At(dWrk, At(iWrk, nc + 1))) \div 2

(***************************************************************************)
(* EventData (EventData.cpp).  A QMap<key, list> is the function on the    *)
(* keys present; value() of an absent key is the empty list.  The arenas   *)
(* dblData, errData and qfData are seen through data(id): one array of     *)
(* smplCount entries per id in pressureID..nextDataId.  The data items of  *)
(* the model carry both pressure and depth, so neither is derived from the *)
(* other.                                                                  *)
(***************************************************************************)
MapValue(m, k) == IF k \in DOMAIN m THEN m[k] ELSE <<>>

MapInsert(m, k, v) ==
  [x \in (DOMAIN m) \cup {k} |-> IF x = k THEN v ELSE m[x]]

pressureID == -2

depthID == -1

\* body of the first loop of the constructor for data item di;
\* r = [e |-> the object, nextDataId |-> the local counter]
RegisterItem(r, di) ==
  LET e        == r.e
      bottle   == di.bodcBottleNumber
      bottles1 == IF ~Contains(e.bodcBottleNumbers, bottle)
                  THEN Append(e.bodcBottleNumbers, bottle)
                  ELSE e.bodcBottleNumbers
      cellIds  == MapValue(e.cellSampleIdsByBodcBottleNumber, bottle)
      cells1   == IF di.cellSampleId # "" /\ ~Contains(cellIds, di.cellSampleId)
                  THEN MapInsert(e.cellSampleIdsByBodcBottleNumber, bottle,
                                 Append(cellIds, di.cellSampleId))
                  ELSE e.cellSampleIdsByBodcBottleNumber
      extPrmName == di.parameter
      pn       == paramNameFromExtendedName(extPrmName)
      uPrmName == IF e.unifiedPrms THEN unifiedNameLabel(pn.name) ELSE pn.name
      barcodes == MapValue(e.barcodesByPrmName, pn.name)
      dataIds  == MapValue(e.dataIdsByUPrmName, uPrmName)
      extPrmNames == MapValue(e.extPrmNamesByUPrmName, uPrmName)
      e1       == [e EXCEPT !.bodcBottleNumbers = bottles1,
                            !.cellSampleIdsByBodcBottleNumber = cells1]
  IN  IF ~Contains(barcodes, pn.barcode)
      THEN [e |-> [e1 EXCEPT
                    !.barcodesByPrmName =
                       MapInsert(@, pn.name, Append(barcodes, pn.barcode)),
                    !.dataIdsByUPrmName =
                       MapInsert(@, uPrmName, Append(dataIds, r.nextDataId + 1)),
                    !.extPrmNamesByUPrmName =
                       MapInsert(@, uPrmName, Append(extPrmNames, extPrmName))],
            nextDataId |-> r.nextDataId + 1]
      ELSE [e |-> e1, nextDataId |-> r.nextDataId]

RECURSIVE RegisterLoop(_, _, _)
RegisterLoop(r, items, i) ==
  IF i > Len(items) THEN r
  ELSE RegisterLoop(RegisterItem(r, items[i]), items, i + 1)

\* second loop of the constructor: r = [firstSmplIds, smplCount]
RECURSIVE SampleCountLoop(_, _, _)
SampleCountLoop(e, r, i) ==
  IF i > Len(e.bodcBottleNumbers) THEN r
  ELSE LET cellCount ==
             Len(MapValue(e.cellSampleIdsByBodcBottleNumber,
                          e.bodcBottleNumbers[i]))
       IN  SampleCountLoop(e,
             [firstSmplIds |-> Append(r.firstSmplIds, r.smplCount),
              smplCount |-> r.smplCount + (IF cellCount = 0 THEN 1 ELSE cellCount)],
             i + 1)

\* a sample id that ignores the cell: the first sample id of the bottle
sampleIdBottleOnly(e, bodcBottleNumber, cellSampleId) ==
  IF IndexOf(e.bodcBottleNumbers, bodcBottleNumber) = -1 THEN -1
  ELSE At(e.firstSmplIds, IndexOf(e.bodcBottleNumbers, bodcBottleNumber))

sampleId(e, bodcBottleNumber, cellSampleId) ==
  LET bottleIdx == IndexOf(e.bodcBottleNumbers, bodcBottleNumber)
      id        == IF bottleIdx = -1 THEN -1 ELSE At(e.firstSmplIds, bottleIdx)
  IN  IF id > -1 /\ bodcBottleNumber \in DOMAIN e.cellSampleIdsByBodcBottleNumber
      THEN LET idx == IndexOf(e.cellSampleIdsByBodcBottleNumber[bodcBottleNumber],
                              cellSampleId)
           IN  IF idx > -1 THEN id + idx ELSE id
      ELSE id

\* a lookup that returns the first data id of the (unified) name, whatever
\* the extended name (one id per name)
dataIdOfNameOnly(e, extPrmName, hasUnifiedPrms) ==
  LET pn       == paramNameFromExtendedName(extPrmName)
      uPrmName == IF hasUnifiedPrms THEN unifiedNameLabel(pn.name) ELSE pn.name
  IN  IF Len(MapValue(e.dataIdsByUPrmName, uPrmName)) = 0 THEN -1
      ELSE At(MapValue(e.dataIdsByUPrmName, uPrmName), 0)

dataIdFromExtendedName(e, extPrmName, hasUnifiedPrms) ==
  LET pn       == paramNameFromExtendedName(extPrmName)
      uPrmName == IF hasUnifiedPrms THEN unifiedNameLabel(pn.name) ELSE pn.name
      idx      == IndexOf(MapValue(e.extPrmNamesByUPrmName, uPrmName), extPrmName)
  IN  IF idx = -1 THEN -1 ELSE At(MapValue(e.dataIdsByUPrmName, uPrmName), idx)

\* third loop of the constructor
RECURSIVE FillLoop(_, _, _)
FillLoop(e, items, i) ==
  IF i > Len(items) THEN e
  ELSE LET di     == items[i]
           smplId == sampleId(e, di.bodcBottleNumber, di.cellSampleId)
           dataId == dataIdFromExtendedName(e, di.parameter, e.unifiedPrms)
       IN  IF smplId = -1 \/ dataId = -1 THEN FillLoop(e, items, i + 1)
           ELSE FillLoop(
                  [e EXCEPT
                    !.dblData = [@ EXCEPT
                       ![pressureID] = Replace(@, smplId, di.pressure),
                       ![depthID] = Replace(@, smplId, di.depth),
                       ![dataId] = Replace(@, smplId, di.parameterValue)],
                    !.errData = [@ EXCEPT
                       ![dataId] = Replace(@, smplId, di.standardDevValue)],
                    !.qfData = [@ EXCEPT
                       ![dataId] = Replace(@, smplId, di.flag)]],
                  items, i + 1)

\* EventData::EventData
EventData(cruiseLbl, items, unifiedPrms) ==
  LET e0 == [unifiedPrms |-> unifiedPrms, cruiseLbl |-> cruiseLbl,
             bodcBottleNumbers |-> <<>>,
             cellSampleIdsByBodcBottleNumber |-> <<>>,
             barcodesByPrmName |-> <<>>, dataIdsByUPrmName |-> <<>>,
             extPrmNamesByUPrmName |-> <<>>, firstSmplIds |-> <<>>,
             dblData |-> <<>>, errData |-> <<>>, qfData |-> <<>>]
      r  == RegisterLoop([e |-> e0, nextDataId |-> -1], items, 1)
      sc == SampleCountLoop(r.e, [firstSmplIds |-> <<>>, smplCount |-> 0], 1)
      arena(init) == [id \in pressureID..r.nextDataId |->
                        [s \in 1..sc.smplCount |-> init]]
      e1 == [r.e EXCEPT !.firstSmplIds = sc.firstSmplIds,
                        !.dblData = arena(missDOUBLE),
                        !.errData = arena(missDOUBLE),
                        !.qfData = arena("0")]
  IN  FillLoop(e1, items, 1)

RECURSIVE ParamNamesLoop(_, _, _)
ParamNamesLoop(extPrmNames, r, i) ==
  IF i > Len(extPrmNames) THEN r
  ELSE LET pn == paramNameFromExtendedName(extPrmNames[i])
       IN  ParamNamesLoop(extPrmNames,
             [prmNames |-> Append(r.prmNames, pn.name),
              barcodes |-> Append(r.barcodes, pn.barcode)], i + 1)

paramNamesForUPrmName(e, uPrmName) ==
  ParamNamesLoop(MapValue(e.extPrmNamesByUPrmName, uPrmName),
                 [prmNames |-> <<>>, barcodes |-> <<>>], 1)

RECURSIVE NumberString(_)
NumberString(idxList) ==
  IF idxList = <<>> THEN ""
  ELSE ToString(Head(idxList)) \o NumberString(Tail(idxList))

infoFileName(e, prmName, idxList) ==
  e.cruiseLbl \o "_" \o Flatten(prmName) \o "_" \o NumberString(idxList)

RECURSIVE CollectLoopNoFilter(_, _, _, _, _)
CollectLoopNoFilter(e, pn, smplIdx, r, i) ==
  IF i >= Len(pn.barcodes) THEN r
  ELSE LET dataId == dataIdFromExtendedName(e,
                       JoinExtended(At(pn.prmNames, i), At(pn.barcodes, i)),
                       e.unifiedPrms)
       IN  CollectLoopNoFilter(e, pn, smplIdx,
             [contribIdxs |-> Append(r.contribIdxs, i),
              vals |-> Append(r.vals, At(e.dblData[dataId], smplIdx)),
              errs |-> Append(r.errs, At(e.errData[dataId], smplIdx)),
              qfs |-> Append(r.qfs, At(e.qfData[dataId], smplIdx))], i + 1)

\* loop over all contributors of getValues;
\* r = [contribIdxs, vals, errs, qfs]
RECURSIVE CollectLoop(_, _, _, _, _)
CollectLoop(e, pn, smplIdx, r, i) ==
  IF i >= Len(pn.barcodes) THEN r
  ELSE LET dataId == dataIdFromExtendedName(e,
                       JoinExtended(At(pn.prmNames, i), At(pn.barcodes, i)),
                       e.unifiedPrms)
           lVal   == At(e.dblData[dataId], smplIdx)
           lErr   == At(e.errData[dataId], smplIdx)
           lQf    == At(e.qfData[dataId], smplIdx)
       IN  IF lVal # missDOUBLE
           THEN CollectLoop(e, pn, smplIdx,
                  [contribIdxs |-> Append(r.contribIdxs, i),
                   vals |-> Append(r.vals, lVal),
                   errs |-> Append(r.errs, lErr),
                   qfs |-> Append(r.qfs, lQf)], i + 1)
           ELSE CollectLoop(e, pn, smplIdx, r, i + 1)

getValuesCombineAlways(e, uPrmName, smplIdx) ==
  LET pn == paramNamesForUPrmName(e, uPrmName)
      c  == CollectLoop(e, pn, smplIdx,
              [contribIdxs |-> <<>>, vals |-> <<>>, errs |-> <<>>, qfs |-> <<>>], 0)
  IN  IF Len(c.vals) = 0
      THEN [val |-> missDOUBLE, err |-> missDOUBLE, qf |-> "9",
            infoStr |-> "", written |-> <<>>]
      ELSE LET infoFn == infoFileName(e, At(pn.prmNames, Len(pn.barcodes) - 1),
                                      c.contribIdxs)
           IN  [val |-> RRandomVarMedian(c.vals), err |-> missDOUBLE,
                qf |-> combinedSdnQualityFlag(c.qfs),
                infoStr |-> "lf:infos/" \o infoFn \o ".html",
                written |-> <<infoFn>>]

\* EventData::getValues.  The result carries the four output arguments and,
\* in written, the names of the info files the call has written.  infoFiles
\* is the map declared inside the function: it is empty on every call.
getValues(e, uPrmName, smplIdx) ==
  LET init == [val |-> missDOUBLE, err |-> missDOUBLE, qf |-> "9",
               infoStr |-> "", written |-> <<>>]
      pn   == paramNamesForUPrmName(e, uPrmName)
      contribCount == Len(pn.barcodes)
  IN  IF contribCount = 0 THEN init
      ELSE
        LET infoFiles == {}
            c == CollectLoop(e, pn, smplIdx,
                   [contribIdxs |-> <<>>, vals |-> <<>>, errs |-> <<>>,
                    qfs |-> <<>>], 0)
            prmName == At(pn.prmNames, contribCount - 1)
            valueCount == Len(c.vals)
            r1 == IF valueCount = 1
                  THEN [init EXCEPT !.val = At(c.vals, 0), !.err = At(c.errs, 0),
                                    !.qf = At(c.qfs, 0)]
                  ELSE IF valueCount > 1
                       THEN [init EXCEPT !.val = RRandomVarMedian(c.vals),
                                         !.err = missDOUBLE,
                                         !.qf = combinedSdnQualityFlag(c.qfs)]
                       ELSE init
        IN  IF valueCount > 0
            THEN LET infoFn == infoFileName(e, prmName, c.contribIdxs)
                 IN  [r1 EXCEPT
                       !.infoStr = "lf:infos/" \o infoFn \o ".html",
                       !.written = IF infoFn \notin infoFiles
                                   THEN <<infoFn>> ELSE <<>>]
            ELSE r1

firstSampleId(e, bodcBottleNumber) ==
  LET bottleIdx == IndexOf(e.bodcBottleNumbers, bodcBottleNumber)
  IN  IF bottleIdx = -1 THEN -1 ELSE At(e.firstSmplIds, bottleIdx)

sampleCount(e, bodcBottleNumber) ==
  IF bodcBottleNumber \in DOMAIN e.cellSampleIdsByBodcBottleNumber
  THEN Len(e.cellSampleIdsByBodcBottleNumber[bodcBottleNumber]) ELSE 1

\* the getValues calls of spreadsheetDataLines, in the order they are made:
\* for every bottle, for every record of the bottle, for every parameter of
\* the parameter map
RECURSIVE PartCalls(_, _, _)
PartCalls(paramNames, smplIdx, i) ==
  IF i > Len(paramNames) THEN <<>>
  ELSE <<[uPrmName |-> paramNames[i], smplIdx |-> smplIdx]>>
       \o PartCalls(paramNames, smplIdx, i + 1)

RECURSIVE RecordCalls(_, _, _, _)
RecordCalls(e, paramNames, bodcBottleNumber, i) ==
  IF i >= sampleCount(e, bodcBottleNumber) THEN <<>>
  ELSE PartCalls(paramNames, firstSampleId(e, bodcBottleNumber) + i, 1)
       \o RecordCalls(e, paramNames, bodcBottleNumber, i + 1)

RECURSIVE LineCalls(_, _, _)
LineCalls(e, paramNames, i) ==
  IF i >= Len(e.bodcBottleNumbers) THEN <<>>
  ELSE RecordCalls(e, paramNames, At(e.bodcBottleNumbers, i), 0)
       \o LineCalls(e, paramNames, i + 1)

(***************************************************************************)
(* Producing the output of one event (ParamSet::writeSpreadsheet..., the   *)
(* caller at Params.cpp): construct the EventData, then make the getValues *)
(* calls of spreadsheetDataLines one after the other.                      *)
(***************************************************************************)
NumItems == 3

ExtNames == { <<"P", "_BOTTLE", "::", "b1">>, <<"P", "_BOTTLE", "::", "b2">>,
              <<"P", "_PUMP", "::", "b1">> }

\* parameterValue, standardDevValue, flag
Measurements == { <<2, 3, "2">>, <<4, 5, "9">>, <<8, 9, "4">> }

DataItems ==
  { [bodcBottleNumber |-> b, cellSampleId |-> "", parameter |-> p,
     parameterValue |-> m[1], standardDevValue |-> m[2], flag |-> m[3],
     pressure |-> 10 * b, depth |-> 10 * b] :
    b \in {1, 2}, p \in ExtNames, m \in Measurements }

\* the names of the parameter map, in map order
ParamNames(unifiedPrms) ==
  IF unifiedPrms THEN << <<"P">>, <<"Q">> >>
  ELSE << <<"P", "_BOTTLE">>, <<"P", "_PUMP">> >>

\* the lists of n data items of the event, bottle by bottle
RECURSIVE ItemLists(_)
ItemLists(n) ==
  IF n = 0 THEN {<<>>}
  ELSE UNION { { Append(s, d) :
                   d \in { x \in DataItems :
                             IF s = <<>> THEN x.bodcBottleNumber = 1
                             ELSE s[Len(s)].bodcBottleNumber
                                    <= x.bodcBottleNumber } } :
               s \in ItemLists(n - 1) }

EdInit ==
  /\ QfIdle /\ CollIdle /\ pool = <<>> /\ ArIdle
  /\ edIn \in { [items |-> it, unifiedPrms |-> u, cruiseLbl |-> "A"] :
                it \in ItemLists(NumItems),
                u \in BOOLEAN }
  /\ ed = <<>>
  /\ edCalls = -1
  /\ edOut = <<>>
  /\ infoWrites = <<>>

EdConstruct ==
  /\ edCalls = -1 /\ edIn # <<>>
  /\ ed' = EventData(edIn.cruiseLbl, edIn.items, edIn.unifiedPrms)
  /\ edCalls' = 0
  /\ UNCHANGED <<edIn, edOut, infoWrites, qfVars, collVars, pool, arVars>>

\* the call made after n calls and its result
callAt(e, n) == At(LineCalls(e, ParamNames(e.unifiedPrms), 0), n)

callResult(e, c) == [call |-> c, out |-> getValues(e, c.uPrmName, c.smplIdx)]

EdGetValues ==
  /\ edCalls >= 0
  /\ edCalls < Len(LineCalls(ed, ParamNames(ed.unifiedPrms), 0))
  /\ edOut' = callResult(ed, callAt(ed, edCalls))
  /\ infoWrites' = infoWrites \o edOut'.out.written
  /\ edCalls' = edCalls + 1
  /\ UNCHANGED <<edIn, ed, qfVars, collVars, pool, arVars>>

EdNext == EdConstruct \/ EdGetValues

SpecED == EdInit /\ [][EdNext]_vars

(***************************************************************************)
(* Claims about reconciliation.  The contributors of the quantity of the   *)
(* last call are read from the object's tables and arrays, not from the    *)
(* steps of getValues.                                                     *)
(***************************************************************************)
EdCalled == edCalls >= 1

\* data ids of the contributors of the last call's quantity
ContribIds == MapValue(ed.dataIdsByUPrmName, edOut.call.uPrmName)

StoredVal(id) == At(ed.dblData[id], edOut.call.smplIdx)
StoredErr(id) == At(ed.errData[id], edOut.call.smplIdx)
StoredQf(id)  == At(ed.qfData[id], edOut.call.smplIdx)

\* the contributors with a non-missing stored value, in contributor order
NonMissingIds == SelectSeq(ContribIds, LAMBDA id : StoredVal(id) # missDOUBLE)

\* C4: with exactly one non-missing contributor the returned value, error
\* and flag are that contributor's stored value, error and flag.
C4_SinglePassThrough ==
  (EdCalled /\ Len(NonMissingIds) = 1) =>
     LET id == NonMissingIds[1]
     IN  /\ edOut.out.val = StoredVal(id)
         /\ edOut.out.err = StoredErr(id)
         /\ edOut.out.qf = StoredQf(id)

C4_Witness ==
  /\ EdCalled /\ Len(ContribIds) >= 2 /\ Len(NonMissingIds) = 1
  /\ edOut.out.qf = "2" /\ edOut.out.val = 2 /\ edOut.out.err = 3

\* C5 as stated: with at least one non-missing contributor the returned
\* flag is never '9'.
C5_FlagNeverNine ==
  (EdCalled /\ Len(NonMissingIds) >= 1) => edOut.out.qf # "9"

\* C5 as amended: with at least one non-missing contributor the returned
\* flag is '9' exactly when the stored flag of every non-missing contributor
\* is '9'.
C5_NineOnlyIfAllNine ==
  (EdCalled /\ Len(NonMissingIds) >= 1) =>
     (edOut.out.qf = "9" <=>
        \A i \in 1..Len(NonMissingIds) : StoredQf(NonMissingIds[i]) = "9")

C5_Witness ==
  /\ EdCalled /\ Len(NonMissingIds) >= 2
  /\ \E i \in 1..Len(NonMissingIds) : StoredQf(NonMissingIds[i]) = "9"
  /\ edOut.out.qf # "9"

\* C6: with no non-missing contributor (also when the quantity has no
\* contributor at all) value and error are missing, the flag is '9' and no
\* provenance identifier is returned.
C6_NoneGivesMissing ==
  (EdCalled /\ Len(NonMissingIds) = 0) =>
     /\ edOut.out.val = missDOUBLE /\ edOut.out.err = missDOUBLE
     /\ edOut.out.qf = "9" /\ edOut.out.infoStr = ""

C6_Witness ==
  /\ EdCalled /\ Len(ContribIds) >= 1 /\ Len(NonMissingIds) = 0
  /\ edOut.out.qf = "9"

\* the k-th smallest of a list of numbers
KthSmallest(vals, k) ==
  CHOOSE x \in {vals[i] : i \in 1..Len(vals)} :
    /\ Cardinality({i \in 1..Len(vals) : vals[i] < x}) < k
    /\ Cardinality({i \in 1..Len(vals) : vals[i] <= x}) >= k

\* the median as defined: the middle of the sorted values, or the mean of
\* the two middle ones
MedianOf(vals) ==
  LET n == Len(vals)
  IN  IF n % 2 = 1 THEN KthSmallest(vals, (n + 1) \div 2)
      ELSE (KthSmallest(vals, n \div 2) + KthSmallest(vals, n \div 2 + 1)) \div 2

\* C7: with more than one non-missing contributor the returned value is the
\* median of their values, the error is missing and the flag is the
\* combination of their flags.
C7_ManyGiveMedian ==
  (EdCalled /\ Len(NonMissingIds) > 1) =>
     LET vals == [i \in 1..Len(NonMissingIds) |-> StoredVal(NonMissingIds[i])]
         qfs  == [i \in 1..Len(NonMissingIds) |-> StoredQf(NonMissingIds[i])]
     IN  /\ edOut.out.val = MedianOf(vals)
         /\ edOut.out.err = missDOUBLE
         /\ edOut.out.qf = combinedSdnQualityFlag(qfs)

C7_Witness ==
  /\ EdCalled /\ Len(NonMissingIds) = 3
  /\ StoredVal(NonMissingIds[1]) = 8 /\ StoredVal(NonMissingIds[2]) = 2
  /\ StoredVal(NonMissingIds[3]) = 4
  /\ edOut.out.val = 4 /\ edOut.out.qf = "4"

\* C10: while the output of one event is produced, the note of one
\* (quantity, contributor-set) key is written once: no info file name is
\* written twice.
C10_NoteWrittenOnce ==
  \A i, j \in 1..Len(infoWrites) : i # j => infoWrites[i] # infoWrites[j]

(***************************************************************************)
(* RMemArea (RMemArea.h, RMemArea.cpp).  Byte counts are exact; an int is  *)
(* 32 bits wide and int arithmetic wraps.  The pointer d is modelled by    *)
(* what it points to: nothing (null) or a buffer of d.bytes bytes.  A      *)
(* block info value is either negative (invalid) or the pair of its low    *)
(* and high int.                                                           *)
(***************************************************************************)
MaxInt32 == 2147483647

MinInt32 == -MaxInt32 - 1

missINT32 == -2147483646

\* a + b in int
WrapAdd(a, b) ==
  IF a >= 0 /\ b >= 0 /\ a > MaxInt32 - b
  THEN (a - MaxInt32 - 1) + (b - MaxInt32 - 1)
  ELSE IF a < 0 /\ b < 0 /\ a < MinInt32 - b
       THEN (a + MaxInt32 + 1) + (b + MaxInt32 + 1)
       ELSE a + b

\* k * n in int, for a small factor k >= 0
RECURSIVE WrapMul(_, _)
WrapMul(k, n) == IF k = 0 THEN 0 ELSE WrapAdd(WrapMul(k - 1, n), n)

\* (int)(1.25*totalBytes) for totalBytes >= 0; a product beyond the int
\* range converts to the smallest int
Int125(totalBytes) ==
  IF totalBytes \div 4 > MaxInt32 - totalBytes THEN MinInt32
  ELSE totalBytes + totalBytes \div 4

qMax(a, b) == IF a < b THEN b ELSE a

NullPtr == [null |-> TRUE, bytes |-> 0]

Buffer(n) == [null |-> FALSE, bytes |-> n]

InvalidInfo == [valid |-> FALSE, lo |-> 0, hi |-> 0]

\* MAKEINT64(lowInt, highInt): the value is negative when either int is
MAKEINT64(lowInt, highInt) ==
  IF lowInt < 0 \/ highInt < 0 THEN InvalidInfo
  ELSE [valid |-> TRUE, lo |-> lowInt, hi |-> highInt]

\* a clear that forgets the block info array
clearMapOnly(a) ==
  [a EXCEPT !.blockInfosById = <<>>, !.usedBytes = 0, !.lastID = missINT32]

\* RMemArea::clear
clear(a) ==
  [a EXCEPT !.blockInfoArr = [i \in 1..a.blockInfoArrSize |-> InvalidInfo],
            !.blockInfosById = <<>>,
            !.usedBytes = 0, !.lastID = missINT32]

\* RMemArea::RMemArea()
RMemArea ==
  clear([d |-> NullPtr, totalBytes |-> 0, usedBytes |-> 0, lastID |-> 0,
         blockInfoArrSize |-> 0, blockInfoArr |-> <<>>,
         blockInfosById |-> <<>>])

blockInfoValue(a, id) ==
  IF id > -1 /\ id < a.blockInfoArrSize THEN At(a.blockInfoArr, id)
  ELSE IF id \in DOMAIN a.blockInfosById THEN a.blockInfosById[id]
       ELSE InvalidInfo

setBlockInfoValue(a, id, byteOffset, nBytes) ==
  IF id > -1 /\ id < a.blockInfoArrSize
  THEN [a EXCEPT !.blockInfoArr = Replace(@, id, MAKEINT64(byteOffset, nBytes))]
  ELSE [a EXCEPT !.blockInfosById =
                    MapInsert(@, id, MAKEINT64(byteOffset, nBytes))]

byteOffset(a, id) ==
  LET v == blockInfoValue(a, id) IN IF v.valid THEN v.lo ELSE -1

byteSize(a, id) ==
  LET v == blockInfoValue(a, id) IN IF v.valid THEN v.hi ELSE -1

\* RMemArea::data(id): 0, or the pointer d + offset.  With d null and a
\* positive offset the result is not 0 and points to no buffer.
data(a, id) ==
  LET v == blockInfoValue(a, id)
  IN  IF ~v.valid \/ (a.d.null /\ v.lo = 0)
      THEN [zero |-> TRUE, inBuffer |-> FALSE, offset |-> 0]
      ELSE [zero |-> FALSE, inBuffer |-> ~a.d.null, offset |-> v.lo]

\* realloc(d, N): fails for a size no allocator serves (N < 0, which is a
\* huge size_t) and whenever memory is short (reallocOk false)
realloc(N, reallocOk) == IF N >= 0 /\ reallocOk THEN Buffer(N) ELSE NullPtr

\* capacity computed by request()
requestN(a, nBytes) ==
  LET incFac == IF nBytes > a.totalBytes THEN 3 ELSE 5
  IN  qMax(WrapAdd(a.usedBytes, WrapMul(incFac, nBytes)), Int125(a.totalBytes))

\* RMemArea::request(id, nBytes)
request(a, id, nBytes, reallocOk) ==
  LET newSize == WrapAdd(a.usedBytes, nBytes)
      N       == requestN(a, nBytes)
      grow    == newSize > a.totalBytes
      d1      == IF grow THEN realloc(N, reallocOk) ELSE a.d
      a1      == [a EXCEPT !.d = d1,
                           !.totalBytes = IF grow /\ ~d1.null THEN N ELSE @]
  IN  IF ~d1.null
      THEN [setBlockInfoValue(a1, id, a.usedBytes, nBytes) EXCEPT
              !.usedBytes = WrapAdd(a.usedBytes, nBytes), !.lastID = id]
      ELSE a1

\* RMemArea::requestMulti; failAt is the set of ids at whose request a
\* realloc, if one is made, fails
RECURSIVE requestMulti(_, _, _, _, _)
requestMulti(a, firstID, lastID, nBytes, failAt) ==
  IF firstID > lastID THEN a
  ELSE requestMulti(request(a, firstID, nBytes, firstID \notin failAt),
                    firstID + 1, lastID, nBytes, failAt)

(***************************************************************************)
(* One RMemArea under arbitrary calls.  arCall records the last call.      *)
(***************************************************************************)
MaxRequests == 2

\* request sizes: one double, ten doubles, 800 million bytes
ArenaSizes == {8, 80, 800000000}

ArenaIds == {-2, -1, 0, 1}

\* id ranges of requestMulti
ArenaRanges == { <<-2, -2>>, <<-2, 5>>, <<-1, 1>> }

NoCall == [op |-> "none", firstID |-> 0, lastID |-> 0, nBytes |-> 0,
           failAt |-> {}]

ArInit ==
  /\ QfIdle /\ CollIdle /\ pool = <<>> /\ EdIdle
  /\ area = RMemArea
  /\ arCall = NoCall
  /\ arCount = 0
  /\ EdmIdle

ArFrame ==
  UNCHANGED <<qfVars, collVars, pool, edVars, areaMap, edMem, edStep, rv, rvOut>>

ArRequest ==
  /\ arCount >= 0 /\ arCount < MaxRequests
  /\ \E id \in ArenaIds, nBytes \in ArenaSizes, reallocOk \in BOOLEAN :
       /\ area' = request(area, id, nBytes, reallocOk)
       /\ arCall' = [op |-> "request", firstID |-> id, lastID |-> id,
                     nBytes |-> nBytes,
                     failAt |-> IF reallocOk THEN {} ELSE {id}]
  /\ arCount' = arCount + 1
  /\ ArFrame

ArRequestMulti ==
  /\ arCount >= 0 /\ arCount < MaxRequests
  /\ \E r \in ArenaRanges, nBytes \in ArenaSizes :
       \E failAt \in {{}} \cup {{id} : id \in r[1]..r[2]} :
         /\ area' = requestMulti(area, r[1], r[2], nBytes, failAt)
         /\ arCall' = [op |-> "requestMulti", firstID |-> r[1],
                       lastID |-> r[2], nBytes |-> nBytes, failAt |-> failAt]
  /\ arCount' = arCount + 1
  /\ ArFrame

ArClear ==
  /\ arCount >= 1
  /\ arCall.op # "clear"
  /\ area' = clear(area)
  /\ arCall' = [NoCall EXCEPT !.op = "clear"]
  /\ UNCHANGED arCount
  /\ ArFrame

ArNext == ArRequest \/ ArRequestMulti \/ ArClear

SpecArena == ArInit /\ [][ArNext]_vars

(***************************************************************************)
(* Claims about RMemArea.                                                  *)
(***************************************************************************)
\* the bytes of a valid block of id lie inside the buffer d points to
BlockInBuffer(a, id) ==
  /\ blockInfoValue(a, id).valid
  /\ ~a.d.null
  /\ byteSize(a, id) <= a.d.bytes
  /\ byteOffset(a, id) <= a.d.bytes - byteSize(a, id)

\* the byte ranges of the blocks of id1 and id2 do not overlap
BlocksDisjoint(a, id1, id2) ==
  LET o1 == byteOffset(a, id1)
      o2 == byteOffset(a, id2)
  IN  \/ (o1 <= o2 /\ byteSize(a, id1) <= o2 - o1)
      \/ (o2 <= o1 /\ byteSize(a, id2) <= o1 - o2)

\* ids probed by the claims
ProbeIds == -3..6

\* C11: requestMulti(firstID, lastID, nBytes) with nBytes >= 1 on an empty
\* arena, every allocation succeeding, leaves one block of nBytes bytes per
\* id of the range, the blocks pairwise disjoint, data(id) not null and
\* pointing to the id's block inside the buffer; every other id is absent.
C11_MultiCreatesBlocks ==
  (/\ arCount = 1 /\ arCall.op = "requestMulti"
   /\ arCall.failAt = {} /\ arCall.nBytes >= 1) =>
     /\ \A id \in arCall.firstID..arCall.lastID :
          /\ byteSize(area, id) = arCall.nBytes
          /\ ~data(area, id).zero
          /\ data(area, id).inBuffer
          /\ data(area, id).offset = byteOffset(area, id)
          /\ BlockInBuffer(area, id)
     /\ \A id1, id2 \in arCall.firstID..arCall.lastID :
          id1 # id2 => BlocksDisjoint(area, id1, id2)
     /\ \A id \in ProbeIds \ (arCall.firstID..arCall.lastID) :
          data(area, id).zero /\ byteSize(area, id) = -1

\* the capacity C20 states for a growing request, as [fits, value]: fits is
\* false when the stated number is beyond the int range
StatedCapacity(used, cap, size) ==
  LET g == IF size > cap THEN 3 ELSE 5
  IN  IF size > MaxInt32 \div g \/ g * size > MaxInt32 - used
      THEN [fits |-> FALSE, value |-> 0]
      ELSE [fits |-> TRUE,
            value |-> qMax(qMax(used + size, used + g * size),
                           cap + cap \div 4)]

\* C20: a request(id, nBytes) whose allocation succeeds sets the capacity
\* to max(used+nBytes, used+g*nBytes, floor(1.25*capacity)) when
\* used+nBytes exceeds the capacity and leaves it unchanged otherwise; the
\* new block starts at the old used offset, used grows by nBytes and does
\* not exceed the capacity.
C20_Step ==
  (arCall'.op = "request" /\ arCount' = arCount + 1 /\ arCall'.failAt = {}) =>
     LET used == area.usedBytes
         cap  == area.totalBytes
         size == arCall'.nBytes
         id   == arCall'.firstID
     IN  /\ IF size > cap - used
            THEN LET c == StatedCapacity(used, cap, size)
                 IN  c.fits /\ area'.totalBytes = c.value
            ELSE area'.totalBytes = cap
         /\ byteOffset(area', id) = used
         /\ byteSize(area', id) = size
         /\ size <= MaxInt32 - used /\ area'.usedBytes = used + size
         /\ area'.usedBytes <= area'.totalBytes

C20_RequestCapacity == [][C20_Step]_vars

(***************************************************************************)
(* The workspace part of EventData::EventData (EventData.cpp 113-156) on   *)
(* the three arenas: the requestMulti calls, then the initialisation loop  *)
(* (one turn per id), then the fill loop, then the data lines of the       *)
(* event.  A write through a pointer that is 0 or points to no buffer is   *)
(* undefined: the process is killed or it goes on.                         *)
(***************************************************************************)
MaxDataId == 2

ArenaNames == {"dblData", "errData", "qfData"}

\* sizeof(double), sizeof(double), sizeof(char)
ElementSize(name) == IF name = "qfData" THEN 1 ELSE 8

EdmInit ==
  /\ QfIdle /\ CollIdle /\ pool = <<>> /\ EdIdle
  /\ area = <<>> /\ arCall = <<>> /\ arCount = -1
  /\ RvIdle
  /\ edMem = [name \in ArenaNames |-> RMemArea]
  /\ \E nextDataId \in 0..MaxDataId, smplCount \in {1, 10} :
       edStep = [pc |-> "request", nextDataId |-> nextDataId,
                 smplCount |-> smplCount, i |-> pressureID, wild |-> FALSE]

EdmFrame ==
  UNCHANGED <<qfVars, collVars, pool, edVars, area, arCall, arCount, areaMap,
              rv, rvOut>>

\* lines 115-117; failAt[name] is the set of ids at whose request on arena
\* name a realloc, if one is made, fails
EdmRequestMulti ==
  /\ edStep.pc = "request"
  /\ \E failAt \in [ArenaNames ->
                      {{}} \cup {{id} : id \in pressureID..edStep.nextDataId}] :
       edMem' = [name \in ArenaNames |->
                   requestMulti(edMem[name], pressureID, edStep.nextDataId,
                                edStep.smplCount * ElementSize(name),
                                failAt[name])]
  /\ edStep' = [edStep EXCEPT !.pc = "init"]
  /\ EdmFrame

\* the pointer data(id) of arena name can be written
Writable(name, id) ==
  /\ ~data(edMem[name], id).zero
  /\ BlockInBuffer(edMem[name], id)

\* lines 118-123, one turn of the loop
EdmInitArrays ==
  /\ edStep.pc = "init"
  /\ edStep.i <= edStep.nextDataId
  /\ \/ edStep' = [edStep EXCEPT !.i = @ + 1,
                     !.wild = @ \/ \E name \in ArenaNames :
                                      ~Writable(name, edStep.i)]
     \/ /\ \E name \in ArenaNames : ~Writable(name, edStep.i)
        /\ edStep' = [edStep EXCEPT !.pc = "killed"]
  /\ UNCHANGED edMem
  /\ EdmFrame

\* lines 125-156: the fill loop writes to data(pressureID), data(depthID)
\* and data(dataId) of the data items
EdmFill ==
  /\ edStep.pc = "init"
  /\ edStep.i > edStep.nextDataId
  /\ \/ edStep' = [edStep EXCEPT !.pc = "filled",
                     !.wild = @ \/ \E name \in ArenaNames :
                                      \E id \in pressureID..edStep.nextDataId :
                                        ~Writable(name, id)]
     \/ /\ \E name \in ArenaNames : \E id \in pressureID..edStep.nextDataId :
             ~Writable(name, id)
        /\ edStep' = [edStep EXCEPT !.pc = "killed"]
  /\ UNCHANGED edMem
  /\ EdmFrame

\* ed.spreadsheetDataLines() of the caller
EdmDataLines ==
  /\ edStep.pc = "filled"
  /\ edStep' = [edStep EXCEPT !.pc = "lines"]
  /\ UNCHANGED edMem
  /\ EdmFrame

EdmNext == EdmRequestMulti \/ EdmInitArrays \/ EdmFill \/ EdmDataLines

SpecEDMem == EdmInit /\ [][EdmNext]_vars

\* a growth of arena name has failed: an id of the range has no block
GrowthFailed(name) ==
  /\ edStep.pc # "request"
  /\ \E id \in pressureID..edStep.nextDataId :
       ~blockInfoValue(edMem[name], id).valid

\* C12: after a failed growth no block of the arena is usable (data(id) is
\* 0 for every id), the construction neither initialises nor fills the
\* arrays, and no data line of the event is produced.
C12_GrowthFailureIsFatal ==
  \A name \in ArenaNames :
    GrowthFailed(name) =>
      /\ \A id \in pressureID..edStep.nextDataId : data(edMem[name], id).zero
      /\ edStep.i = pressureID
      /\ edStep.pc \notin {"filled", "lines"}

(***************************************************************************)
(* EventsDB::collateStationsByProximity called on its own: a list of       *)
(* events without station label and no Stations collated by label, so      *)
(* that only the clustering loop (Events.cpp 212-227) runs.                *)
(***************************************************************************)
\* sample points <<time in 0.01 day, position in km>> on a line, 10 km
\* apart, and one at the first position 6 days later
ProxPlaces == {<<0, 0>>, <<0, 10>>, <<0, 20>>, <<600, 0>>}

ProxInit ==
  /\ \E f \in [EventIds -> [c : {"A", "B"}, p : ProxPlaces]] :
       db = [i \in EventIds |->
               [eventNumber |-> i, cruiseLbl |-> f[i].c, stationLbl |-> "",
                gd |-> f[i].p[1], km |-> f[i].p[2]]]
  /\ tol \in Tolerances
  /\ pc = "prox"
  /\ stations = <<>>
  /\ noStNameEvents = InputEventNumbers
  /\ evtNumbers = InputEventNumbers
  /\ stationsNn = <<>>
  /\ mergeI = -1
  /\ sl = <<>>
  /\ QfIdle
  /\ pool = <<>>
  /\ EdIdle
  /\ ArIdle

SpecProx == ProxInit /\ [][ProxStep]_vars

\* the cluster that the step appended
NewCluster == stationsNn'[Len(stationsNn')]

\* the ids folded into the new cluster, without its seed
Folded == {NewCluster.ids[k] : k \in 2..Len(NewCluster.ids)}

\* the seed and the folded ids that stand after x in the list evts
SeedAndLater(evts, x) ==
  [eventInfos |->
     [k \in 1..Len(SelectSeq(evts, LAMBDA y :
                       y = Head(evts)
                       \/ (y \in Folded /\ IndexOf(evts, y) > IndexOf(evts, x)))) |->
        db[SelectSeq(evts, LAMBDA y :
                       y = Head(evts)
                       \/ (y \in Folded /\ IndexOf(evts, y) > IndexOf(evts, x)))[k]]]]

\* the ids of a Station as a set
IdSet(st) == {st.ids[k] : k \in 1..Len(st.ids)}

\* C13 as stated: the remaining ids are scanned in input order, so that a
\* step puts into the cluster the ids that the scan from the first to the
\* last remaining id folds, and leaves the others.
C13_ScanInInputOrder ==
  [][pc = "prox" =>
       /\ IdSet(NewCluster) = IdSet(ProxScanForward(Len(evtNumbers) - 2,
                                                    StationOf(Head(evtNumbers)),
                                                    Tail(evtNumbers)).st)
       /\ evtNumbers' = ProxScanForward(Len(evtNumbers) - 2,
                                        StationOf(Head(evtNumbers)),
                                        Tail(evtNumbers)).evts]_vars

\* C13, amended: a step seeds the cluster with the first remaining id and
\* decides the other remaining ids from the last to the first; an id is
\* folded exactly when it is of the seed's cruise and within both
\* tolerances of the mean of the seed and the ids folded before it (those
\* after it in the list); the ids enter the cluster in that order and are
\* removed from the remaining list, whose order is otherwise kept.
C13_ScanInReverseOrder ==
  [][pc = "prox" =>
       /\ NewCluster.ids[1] = Head(evtNumbers)
       /\ stationsNn' = Append(stationsNn, NewCluster)
       /\ evtNumbers' = SelectSeq(Tail(evtNumbers), LAMBDA y : y \notin Folded)
       /\ \A k \in 2..Len(NewCluster.ids) - 1 :
            IndexOf(evtNumbers, NewCluster.ids[k])
              > IndexOf(evtNumbers, NewCluster.ids[k + 1])
       /\ \A k \in 2..Len(evtNumbers) :
            evtNumbers[k] \in Folded <=>
              /\ db[evtNumbers[k]].cruiseLbl = db[Head(evtNumbers)].cruiseLbl
              /\ WithinTolerance(StationInfo(SeedAndLater(evtNumbers, evtNumbers[k])),
                                 RatOfInt(db[evtNumbers[k]].gd),
                                 RatOfInt(db[evtNumbers[k]].km))]_vars

\* a cluster whose seed is 10 km from two candidates on either side: only
\* the one decided first is folded, and it is the later one of the list
C13_Witness ==
  /\ pc # "prox" /\ Len(stationsNn) = 2
  /\ stationsNn[1].ids = <<1, 3>>
  /\ stationsNn[2].ids = <<2>>
  /\ db[1].cruiseLbl = db[2].cruiseLbl
  /\ db[1].km = 10 /\ db[2].km = 0 /\ db[3].km = 20
  /\ db[1].gd = 0 /\ db[2].gd = 0 /\ db[3].gd = 0

(***************************************************************************)
(* EventsDB::collateStationsByStationLabel called on its own.  Cruise and  *)
(* station labels are strings of the collection's files; the labels below  *)
(* include ones that contain the separator of Station::stationKey.         *)
(***************************************************************************)
LabelCruises == {"A", "A::s"}

LabelStationLabels == {"", "s1", "s::s1"}

LabelInit ==
  /\ \E f \in [EventIds -> [c : LabelCruises, l : LabelStationLabels]] :
       db = [i \in EventIds |->
               [eventNumber |-> i, cruiseLbl |-> f[i].c, stationLbl |-> f[i].l,
                gd |-> 0, km |-> 0]]
  /\ tol \in Tolerances
  /\ pc = "label"
  /\ stations = <<>>
  /\ noStNameEvents = <<>>
  /\ evtNumbers = <<>>
  /\ stationsNn = <<>>
  /\ mergeI = -1
  /\ sl = <<>>
  /\ QfIdle
  /\ pool = <<>>
  /\ EdIdle
  /\ ArIdle

SpecLabel == LabelInit /\ [][LabelPass]_vars

\* the indices of the returned Stations that hold the id
StationsHolding(id) ==
  {k \in 1..Len(stations) : Contains(stations[k].ids, id)}

\* C14: after the label pass two ids with non-empty station labels are in
\* the same Station iff their cruise labels and their station labels are
\* equal, every id with a non-empty label is in exactly one Station, and
\* noNameEventNumbers holds exactly the ids with an empty label in input
\* order.
C14_LabelPartition ==
  pc \notin {"label", "idle"} =>
    /\ \A i, j \in EventIds :
         (db[i].stationLbl # "" /\ db[j].stationLbl # "" /\ i # j) =>
           ((StationsHolding(i) \cap StationsHolding(j) # {})
              <=> (db[i].cruiseLbl = db[j].cruiseLbl
                   /\ db[i].stationLbl = db[j].stationLbl))
    /\ \A i \in EventIds :
         db[i].stationLbl # "" => Cardinality(StationsHolding(i)) = 1
    /\ noStNameEvents
         = SelectSeq(InputEventNumbers, LAMBDA i : db[i].stationLbl = "")

\* the indices of the Stations of the result that hold the id
ResultHolding(id) == {k \in 1..Len(sl) : Contains(sl[k].ids, id)}

\* two events of one cruise without station label
UnlabeledPair(a, b) ==
  /\ a # b
  /\ db[a].stationLbl = "" /\ db[b].stationLbl = ""
  /\ db[a].cruiseLbl = db[b].cruiseLbl

\* C15: with tolerances 15 km and 5 days the result of collateStations has
\* a Station holding both of two unlabeled events of one cruise at the same
\* position and time, and no Station holding one of them together with an
\* unlabeled event of the cruise 20 km away at the same time.
C15_ToleranceExample ==
  (pc = "done" /\ tol = [dist |-> 15, time |-> 500]) =>
    \A a, b \in EventIds :
      (UnlabeledPair(a, b) /\ db[a].gd = db[b].gd /\ db[a].km = db[b].km) =>
        /\ ResultHolding(a) \cap ResultHolding(b) # {}
        /\ \A c \in EventIds :
             (UnlabeledPair(a, c) /\ db[c].gd = db[a].gd
              /\ (db[c].km - db[a].km = 20 \/ db[a].km - db[c].km = 20)) =>
               ResultHolding(a) \cap ResultHolding(c) = {}

\* the Stations of the list of the cruise that have no station label
UnlabeledOf(list, cruise) ==
  {k \in 1..Len(list) : list[k].cruiseLbl = cruise /\ Len(list[k].stationLbls) = 0}

MeanTimeOf(list, k) == StationInfo(list[k]).meanTime

PairwiseDifferentTimes(list, ks) ==
  \A k1, k2 \in ks : k1 # k2 => ~RatEq(MeanTimeOf(list, k1), MeanTimeOf(list, k2))

\* 1 + the number of Stations of ks with a smaller mean time than Station k
TimeRank(list, ks, k) ==
  1 + Cardinality({k2 \in ks : RatLt(MeanTimeOf(list, k2), MeanTimeOf(list, k))})

\* C16: when the unlabeled Stations of a cruise have pairwise different
\* mean times, autoAssignStationLabels gives the one with the i-th smallest
\* mean time the label "(i)", whatever their order in the list.
C16_AutoLabelsByTime ==
  [][pc = "auto" =>
       \A c \in {"A", "B"} :
         PairwiseDifferentTimes(stationsNn, UnlabeledOf(stationsNn, c)) =>
           \A k \in UnlabeledOf(stationsNn, c) :
             stationsNn'[k].stationLbls
               = <<AutoLabel(TimeRank(stationsNn, UnlabeledOf(stationsNn, c), k))>>]_vars

\* three Stations of one cruise, labeled "(2)", "(3)", "(1)" in list order,
\* with mean times day 0.01, day 6 and day 0
C16_Witness ==
  /\ pc = "done" /\ Len(stationsNn) = 3
  /\ stationsNn[1].cruiseLbl = stationsNn[2].cruiseLbl
  /\ stationsNn[2].cruiseLbl = stationsNn[3].cruiseLbl
  /\ stationsNn[1].stationLbls = <<"(2)">>
  /\ stationsNn[2].stationLbls = <<"(3)">>
  /\ stationsNn[3].stationLbls = <<"(1)">>
  /\ RatEq(MeanTimeOf(stationsNn, 1), RatOfInt(1))
  /\ RatEq(MeanTimeOf(stationsNn, 2), RatOfInt(600))
  /\ RatEq(MeanTimeOf(stationsNn, 3), RatOfInt(0))

(***************************************************************************)
(* The slot ids (data ids) that the constructor hands out.                 *)
(***************************************************************************)
\* the identity of the quantity of a data item: the (parameter name,
\* barcode) pair, or the name without its sampling-system suffix
RawPair(di) == paramNameFromExtendedName(di.parameter)

QuantityIdentity(di, unifiedPrms) ==
  IF unifiedPrms THEN unifiedNameLabel(RawPair(di).name) ELSE RawPair(di)

\* the slot id under which the values of the data item are stored
SlotOf(di) == dataIdFromExtendedName(ed, di.parameter, ed.unifiedPrms)

\* the number of different elements among the first n of a sequence
DifferentAmong(pairs, n) == Cardinality({pairs[k] : k \in 1..n})

\* the position of the first element equal to element i
FirstEqual(pairs, i) ==
  CHOOSE k \in 1..i : /\ pairs[k] = pairs[i]
                      /\ \A j \in 1..(k - 1) : pairs[j] # pairs[i]

\* C17 as stated: all data items of one QuantityIdentity are stored under
\* one slot id, items of different identities under different slot ids,
\* and the slot ids are 0, 1, .. in the order in which the identities are
\* first seen.
C17_OneSlotPerIdentity ==
  edCalls = 0 =>
    \A i, j \in 1..Len(edIn.items) :
      /\ SlotOf(edIn.items[i]) >= 0
      /\ (QuantityIdentity(edIn.items[i], ed.unifiedPrms)
            = QuantityIdentity(edIn.items[j], ed.unifiedPrms))
           <=> (SlotOf(edIn.items[i]) = SlotOf(edIn.items[j]))

\* C17, amended: every raw (parameter name, barcode) pair of the event has
\* exactly one slot id, with and without unification: the pair first seen
\* at item k gets the number of different pairs seen before item k, so the
\* ids are 0, 1, .. in first-encounter order right after pressure (-2) and
\* depth (-1), different pairs have different ids, and the arrays exist
\* for pressure up to the last id handed out plus one.
C17_OneSlotPerRawPair ==
  edCalls = 0 =>
    LET pairs == [i \in 1..Len(edIn.items) |-> RawPair(edIn.items[i])]
        slots == [i \in 1..Len(edIn.items) |-> SlotOf(edIn.items[i])]
    IN  /\ \A i, j \in 1..Len(pairs) :
             /\ slots[i] = DifferentAmong(pairs, FirstEqual(pairs, i) - 1)
             /\ (pairs[i] = pairs[j]) <=> (slots[i] = slots[j])
        /\ DOMAIN ed.dblData
             = pressureID..(DifferentAmong(pairs, Len(pairs)) - 1)

\* unification enabled, P_BOTTLE::b1 and P_PUMP::b1 seen in this order:
\* the unified quantity P has the two slot ids 0 and 1
C17_Witness ==
  /\ edCalls >= 0 /\ ed.unifiedPrms
  /\ edIn.items[1].parameter = <<"P", "_BOTTLE", "::", "b1">>
  /\ edIn.items[2].parameter = <<"P", "_PUMP", "::", "b1">>
  /\ SlotOf(edIn.items[1]) = 0
  /\ SlotOf(edIn.items[2]) = 1
  /\ ed.dataIdsByUPrmName[<<"P">>] = <<0, 1>>

(***************************************************************************)
(* Construction of an EventData from data items of bottles with and        *)
(* without cell-sample ids, in any bottle order.                           *)
(***************************************************************************)
CellSampleIds == {"", "c1", "c2"}

CellItems ==
  { [bodcBottleNumber |-> b, cellSampleId |-> c, parameter |-> p,
     parameterValue |-> 2, standardDevValue |-> 3, flag |-> "2",
     pressure |-> 10 * b, depth |-> 10 * b] :
    b \in {1, 2}, c \in CellSampleIds,
    p \in { <<"P", "_BOTTLE", "::", "b1">>, <<"P", "_PUMP", "::", "b1">> } }

CellsInit ==
  /\ QfIdle /\ CollIdle /\ pool = <<>> /\ ArIdle
  /\ edIn \in { [items |-> it, unifiedPrms |-> u, cruiseLbl |-> "A"] :
                it \in [1..NumItems -> CellItems], u \in BOOLEAN }
  /\ ed = <<>>
  /\ edCalls = -1
  /\ edOut = <<>>
  /\ infoWrites = <<>>

SpecEDCells == CellsInit /\ [][EdConstruct]_vars

\* the different elements of a sequence in the order of their first
\* occurrence
RECURSIVE FirstEncounter(_)
FirstEncounter(s) ==
  IF s = <<>> THEN <<>>
  ELSE LET front == FirstEncounter(SubSeq(s, 1, Len(s) - 1))
       IN  IF Contains(front, s[Len(s)]) THEN front ELSE Append(front, s[Len(s)])

\* the bottles of the input and the cell-sample ids of a bottle
InputBottles ==
  FirstEncounter([k \in 1..Len(edIn.items) |-> edIn.items[k].bodcBottleNumber])

InputCells(b) ==
  LET sel == SelectSeq(edIn.items, LAMBDA di :
                         di.bodcBottleNumber = b /\ di.cellSampleId # "")
  IN  FirstEncounter([k \in 1..Len(sel) |-> sel[k].cellSampleId])

\* the number of Samples of a bottle
SamplesOf(b) == IF Len(InputCells(b)) = 0 THEN 1 ELSE Len(InputCells(b))

\* the number of Samples of the first n bottles
RECURSIVE SamplesBefore(_)
SamplesBefore(n) ==
  IF n = 0 THEN 0 ELSE SamplesBefore(n - 1) + SamplesOf(InputBottles[n])

\* the sample indices of the p-th bottle
IndexRange(p) ==
  LET cells == InputCells(InputBottles[p])
  IN  { sampleId(ed, InputBottles[p], c) :
          c \in IF Len(cells) = 0 THEN {""}
                ELSE {cells[k] : k \in 1..Len(cells)} }

\* C18: the bottles are kept in first-encounter order; the first sample
\* index of a bottle is the sum of the sample counts (1 without cell ids,
\* else the number of distinct cell ids) of the bottles before it; its
\* cells have the indices first, first+1, .. in first-encounter order; the
\* index ranges of the bottles are disjoint and cover 0 .. total-1.
C18_SampleIndices ==
  edCalls >= 0 =>
    LET bottles == InputBottles
        ranges  == [p \in 1..Len(bottles) |-> IndexRange(p)]
    IN  /\ ed.bodcBottleNumbers = bottles
        /\ \A p \in 1..Len(bottles) :
             LET cells == InputCells(bottles[p])
                 first == SamplesBefore(p - 1)
             IN  /\ firstSampleId(ed, bottles[p]) = first
                 /\ sampleCount(ed, bottles[p]) = SamplesOf(bottles[p])
                 /\ Len(cells) = 0 => sampleId(ed, bottles[p], "") = first
                 /\ \A k \in 1..Len(cells) :
                      sampleId(ed, bottles[p], cells[k]) = first + k - 1
                 /\ Cardinality(ranges[p]) = SamplesOf(bottles[p])
        /\ \A p, q \in 1..Len(bottles) :
             p # q => ranges[p] \cap ranges[q] = {}
        /\ UNION {ranges[p] : p \in 1..Len(bottles)}
             = 0..(Len(ed.dblData[pressureID]) - 1)

\* bottle 2 with cells c1, c2 seen before bottle 1 without cells
C18_Witness ==
  /\ edCalls >= 0
  /\ ed.bodcBottleNumbers = <<2, 1>>
  /\ ed.firstSmplIds = <<0, 2>>
  /\ sampleId(ed, 2, "c1") = 0
  /\ sampleId(ed, 2, "c2") = 1
  /\ sampleId(ed, 1, "") = 2
  /\ Len(ed.dblData[pressureID]) = 3

(***************************************************************************)
(* An RRandomVar object over an array of values: the constructor and       *)
(* calls of median().  vals is the caller's array, which the object only   *)
(* points to; med caches the result.                                       *)
(***************************************************************************)
MaxVals == 4

\* the arrays of up to MaxVals values: missing values and the values 2, 4, 6
ValueArrays == UNION {[1..n -> {missDOUBLE, 2, 4, 6}] : n \in 0..MaxVals}

\* stands for 1.e99, a value beyond every value of the arrays
Huge == 2000000000

\* RRandomVar::RRandomVar(count, values, missingValue)
RRandomVar(values) ==
  [vals |-> values, valCount |-> Len(values), missVal |-> missDOUBLE,
   mu |-> RatOfInt(missDOUBLE), var |-> RatOfInt(missDOUBLE),
   med |-> missDOUBLE, minVal |-> Huge, maxVal |-> -Huge,
   nonMissCount |-> -1]

\* RRandomVar::median(): the object after the call and the returned value
median(r) ==
  IF r.med # r.missVal \/ r.nonMissCount = 0
  THEN [rv |-> r, ret |-> r.med]
  ELSE [rv |-> [r EXCEPT !.med = RRandomVarMedian(r.vals)],
        ret |-> RRandomVarMedian(r.vals)]

RvInit ==
  /\ QfIdle /\ CollIdle /\ pool = <<>> /\ EdIdle
  /\ area = <<>> /\ arCall = <<>> /\ arCount = -1 /\ areaMap = <<>>
  /\ edMem = <<>> /\ edStep = <<>>
  /\ rv \in {RRandomVar(values) : values \in ValueArrays}
  /\ rvOut = <<>>

RvMedian ==
  /\ Len(rvOut) < 2
  /\ rv' = median(rv).rv
  /\ rvOut' = Append(rvOut, median(rv).ret)
  /\ UNCHANGED <<qfVars, collVars, pool, edVars, area, arCall, arCount,
                 areaMap, edMem, edStep>>

SpecMedian == RvInit /\ [][RvMedian]_vars

\* the non-missing values of the array of the object
ValidVals == SelectSeq(rv.vals, LAMBDA v : v # rv.missVal)

\* the value that C19 states for the array of the object
C19_Value ==
  \A k \in 1..Len(rvOut) :
    /\ rvOut[k] = IF Len(ValidVals) = 0 THEN rv.missVal ELSE MedianOf(ValidVals)
    /\ rv.vals = <<missDOUBLE, 2, 4, 6>> => rvOut[k] = 4
    /\ rv.vals = <<2, 4>> => rvOut[k] = 3

\* C19: every call of median returns the middle of the sorted non-missing
\* values (odd count), the average of the two middle ones (even count) or
\* the sentinel (none), so [missing,2,4,6] gives 4 and [2,4] gives 3; and
\* a call leaves the array unchanged.
C19_Median ==
  /\ []C19_Value
  /\ [][rv'.vals = rv.vals /\ rv'.valCount = rv.valCount]_vars

C19_Witness ==
  /\ rv.vals = <<6, missDOUBLE, 2, 4>>
  /\ rvOut = <<4, 4>>

(***************************************************************************)
(* RMemArea with a block info array: the constructor with sizes, place,    *)
(* the release functions and request(nBytes).                              *)
(***************************************************************************)
\* malloc(nBytes): fails for a size no allocator serves and whenever memory
\* is short (mallocOk false)
malloc(nBytes, mallocOk) == IF nBytes >= 0 /\ mallocOk THEN Buffer(nBytes) ELSE NullPtr

\* RMemArea::resizeBlockArray
resizeBlockArray(a, blockInfoArraySize) ==
  IF blockInfoArraySize > 0
  THEN [a EXCEPT !.blockInfoArrSize = blockInfoArraySize,
                 !.blockInfoArr = [i \in 1..blockInfoArraySize |-> InvalidInfo]]
  ELSE [a EXCEPT !.blockInfoArrSize = 0, !.blockInfoArr = <<>>]

\* RMemArea::RMemArea(nBytes, blockInfoArraySize)
RMemAreaOf(nBytes, blockInfoArraySize, mallocOk) ==
  LET a0 == resizeBlockArray([d |-> NullPtr, totalBytes |-> 0, usedBytes |-> 0,
                              lastID |-> 0, blockInfoArrSize |-> 0,
                              blockInfoArr |-> <<>>, blockInfosById |-> <<>>],
                             blockInfoArraySize)
      d0 == malloc(nBytes, mallocOk)
  IN  clear([a0 EXCEPT !.d = d0,
                       !.totalBytes = IF d0.null THEN 0 ELSE nBytes])

\* RMemArea::place(id, byteOffset, nBytes): the arena afterwards and the
\* pointer returned
place(a, id, offset, nBytes) ==
  IF ~a.d.null /\ a.totalBytes >= WrapAdd(offset, nBytes)
  THEN [area |-> setBlockInfoValue(a, id, offset, nBytes),
        ret  |-> [zero |-> FALSE,
                  inBuffer |-> offset >= 0 /\ offset <= a.d.bytes,
                  offset |-> offset]]
  ELSE [area |-> a, ret |-> [zero |-> TRUE, inBuffer |-> FALSE, offset |-> 0]]

\* QMap::remove
MapRemove(m, k) == [x \in DOMAIN m \ {k} |-> m[x]]

\* a release that also gives the bytes from the block's offset on back
releaseRequestReclaim(a, id) ==
  LET v == blockInfoValue(a, id)
      a1 == IF v.valid THEN [a EXCEPT !.usedBytes = v.lo] ELSE a
  IN  IF id > -1 /\ id < a.blockInfoArrSize
      THEN [a1 EXCEPT !.blockInfoArr = Replace(@, id, InvalidInfo)]
      ELSE [a1 EXCEPT !.blockInfosById = MapRemove(@, id)]

\* RMemArea::releaseRequest(id)
releaseRequest(a, id) ==
  IF id > -1 /\ id < a.blockInfoArrSize
  THEN [a EXCEPT !.blockInfoArr = Replace(@, id, InvalidInfo)]
  ELSE [a EXCEPT !.blockInfosById = MapRemove(@, id)]

\* RMemArea::releaseLastRequest
releaseLastRequest(a) ==
  IF a.lastID > -1 /\ blockInfoValue(a, a.lastID).valid
  THEN [releaseRequest([a EXCEPT !.usedBytes = blockInfoValue(a, a.lastID).lo],
                       a.lastID)
          EXCEPT !.lastID = missINT32]
  ELSE a

\* RMemArea::request(nBytes)
requestBytes(a, nBytes, reallocOk) == request(clear(a), -1, nBytes, reallocOk)

(***************************************************************************)
(* Two RMemArea objects under the same calls: area has a block info array  *)
(* of DenseSize entries, areaMap has none.  arCall records the last call   *)
(* and, for place, the pointer returned.                                   *)
(***************************************************************************)
DenseSize == 2

MaxOps == 3

OpIds == {-1, 0, 2}

OpSizes == {4, 8}

\* offsets handed to place: before a 16-byte buffer, inside it, at its end,
\* and 4 below the largest int
OpOffsets == {-4, 0, 12, 2147483644}

OpRanges == { <<-1, 0>>, <<1, 2>> }

\* the record of a call that left area as a; allocFailed tells whether a
\* malloc or realloc has failed so far (d is NULL after each failure)
OpCall(op, firstID, lastID, offset, nBytes, failAt, ret, a) ==
  [op |-> op, firstID |-> firstID, lastID |-> lastID, byteOffset |-> offset,
   nBytes |-> nBytes, failAt |-> failAt, ret |-> ret,
   allocFailed |-> arCall.allocFailed \/ a.d.null]

NoRet == [zero |-> TRUE, inBuffer |-> FALSE, offset |-> 0]

OpInit ==
  /\ QfIdle /\ CollIdle /\ pool = <<>> /\ EdIdle
  /\ \E nBytes \in {0, 16}, mallocOk \in BOOLEAN :
       /\ area = RMemAreaOf(nBytes, DenseSize, mallocOk)
       /\ areaMap = RMemAreaOf(nBytes, 0, mallocOk)
  /\ arCall = [op |-> "none", firstID |-> 0, lastID |-> 0, byteOffset |-> 0,
               nBytes |-> 0, failAt |-> {}, ret |-> NoRet,
               allocFailed |-> area.d.null]
  /\ arCount = 0
  /\ edMem = <<>> /\ edStep = <<>> /\ rv = <<>> /\ rvOut = <<>>

OpFrame == UNCHANGED <<qfVars, collVars, pool, edVars, edMem, edStep, rv, rvOut>>

OpPlace ==
  /\ arCount < MaxOps
  /\ \E id \in OpIds, offset \in OpOffsets, nBytes \in OpSizes :
       /\ area' = place(area, id, offset, nBytes).area
       /\ areaMap' = place(areaMap, id, offset, nBytes).area
       /\ arCall' = OpCall("place", id, id, offset, nBytes, {},
                           place(area, id, offset, nBytes).ret, area')
  /\ arCount' = arCount + 1
  /\ OpFrame

OpRequest ==
  /\ arCount < MaxOps
  /\ \E id \in OpIds, nBytes \in OpSizes, reallocOk \in BOOLEAN :
       /\ area' = request(area, id, nBytes, reallocOk)
       /\ areaMap' = request(areaMap, id, nBytes, reallocOk)
       /\ arCall' = OpCall("request", id, id, 0, nBytes,
                           IF reallocOk THEN {} ELSE {id}, NoRet, area')
  /\ arCount' = arCount + 1
  /\ OpFrame

OpRequestBytes ==
  /\ arCount < MaxOps
  /\ \E nBytes \in OpSizes, reallocOk \in BOOLEAN :
       /\ area' = requestBytes(area, nBytes, reallocOk)
       /\ areaMap' = requestBytes(areaMap, nBytes, reallocOk)
       /\ arCall' = OpCall("requestBytes", -1, -1, 0, nBytes,
                           IF reallocOk THEN {} ELSE {-1}, NoRet, area')
  /\ arCount' = arCount + 1
  /\ OpFrame

OpRequestMulti ==
  /\ arCount < MaxOps
  /\ \E r \in OpRanges, nBytes \in OpSizes :
       /\ area' = requestMulti(area, r[1], r[2], nBytes, {})
       /\ areaMap' = requestMulti(areaMap, r[1], r[2], nBytes, {})
       /\ arCall' = OpCall("requestMulti", r[1], r[2], 0, nBytes, {}, NoRet, area')
  /\ arCount' = arCount + 1
  /\ OpFrame

OpReleaseRequest ==
  /\ arCount < MaxOps
  /\ \E id \in OpIds :
       /\ area' = releaseRequest(area, id)
       /\ areaMap' = releaseRequest(areaMap, id)
       /\ arCall' = OpCall("releaseRequest", id, id, 0, 0, {}, NoRet, area')
  /\ arCount' = arCount + 1
  /\ OpFrame

OpReleaseLastRequest ==
  /\ arCount < MaxOps
  /\ area' = releaseLastRequest(area)
  /\ areaMap' = releaseLastRequest(areaMap)
  /\ arCall' = OpCall("releaseLastRequest", 0, 0, 0, 0, {}, NoRet, area')
  /\ arCount' = arCount + 1
  /\ OpFrame

OpClear ==
  /\ arCount < MaxOps
  /\ area' = clear(area)
  /\ areaMap' = clear(areaMap)
  /\ arCall' = OpCall("clear", 0, 0, 0, 0, {}, NoRet, area')
  /\ arCount' = arCount + 1
  /\ OpFrame

OpNext ==
  \/ OpPlace \/ OpRequest \/ OpRequestBytes \/ OpRequestMulti
  \/ OpReleaseRequest \/ OpReleaseLastRequest \/ OpClear

SpecArenaOps == OpInit /\ [][OpNext]_vars

(***************************************************************************)
(* Claims about place, the release functions and the block info array.     *)
(***************************************************************************)
\* what the inquiry functions return for id
Absent(a, id) ==
  /\ data(a, id).zero
  /\ byteOffset(a, id) = -1
  /\ byteSize(a, id) = -1

\* used bytes, buffer and the blocks of all probed ids but those in except
\* are the same in a and b
SameBut(a, b, except) ==
  /\ a.usedBytes = b.usedBytes
  /\ a.totalBytes = b.totalBytes
  /\ a.d = b.d
  /\ \A other \in ProbeIds \ except :
       /\ byteOffset(a, other) = byteOffset(b, other)
       /\ byteSize(a, other) = byteSize(b, other)

\* C21: releaseRequest(id) makes the block of id absent (data(id) null,
\* byteOffset(id) and byteSize(id) -1) and changes nothing else: used bytes,
\* capacity and the offset and size of every other id stay as they were,
\* for ids of the block info array and for ids of the map alike.
C21_Step ==
  (arCall'.op = "releaseRequest" /\ arCount' = arCount + 1) =>
     /\ Absent(area', arCall'.firstID)
     /\ SameBut(area', area, {arCall'.firstID})
     /\ Absent(areaMap', arCall'.firstID)
     /\ SameBut(areaMap', areaMap, {arCall'.firstID})

C21_ReleaseOnlyInvalidates == [][C21_Step]_vars

\* id 0 (block info array) was released after two requests of 8 bytes; the
\* block of id 2 (map) is still there behind the released bytes
C21_Witness ==
  /\ arCall.op = "releaseRequest" /\ arCall.firstID = 0
  /\ arCount = 3
  /\ area.blockInfoArrSize > 0
  /\ area.usedBytes = 16
  /\ byteOffset(area, 2) = 8 /\ byteSize(area, 2) = 8
  /\ Absent(area, 0)

\* C22: place(id, offset, size) registers the block (offset, size) for id
\* and returns a handle when offset+size does not exceed the capacity of an
\* allocated buffer; otherwise it returns no handle and leaves the arena as
\* it was; place never grows the buffer.
C22_Step ==
  (arCall'.op = "place" /\ arCount' = arCount + 1) =>
     LET id     == arCall'.firstID
         offset == arCall'.byteOffset
         size   == arCall'.nBytes
     IN  /\ IF ~area.d.null /\ size <= area.totalBytes - offset
            THEN /\ ~arCall'.ret.zero
                 /\ byteOffset(area', id) = offset
                 /\ byteSize(area', id) = size
                 /\ SameBut(area', area, {id})
            ELSE /\ arCall'.ret.zero
                 /\ area' = area
         /\ area'.totalBytes = area.totalBytes
         /\ area'.d = area.d

C22_PlaceWithinCapacity == [][C22_Step]_vars

\* C23: after every sequence of place, request, requestMulti, releaseRequest
\* and clear calls, the arena with a block info array of DenseSize > 0
\* entries returns the same data, byteOffset and byteSize for every id (in
\* the array's range, above it, negative) as the arena that serves all ids
\* through the map; an id never registered or just released is null / -1
\* in both.
C23_DenseEqualsMap ==
  /\ area.blockInfoArrSize > 0 /\ areaMap.blockInfoArrSize = 0
  /\ \A id \in ProbeIds :
       /\ data(area, id) = data(areaMap, id)
       /\ byteOffset(area, id) = byteOffset(areaMap, id)
       /\ byteSize(area, id) = byteSize(areaMap, id)
  /\ arCount = 0 =>
       \A id \in ProbeIds : Absent(area, id) /\ Absent(areaMap, id)
  /\ arCall.op = "releaseRequest" =>
       Absent(area, arCall.firstID) /\ Absent(areaMap, arCall.firstID)

\* after three calls id 0 is served by the array in area and by the map in
\* areaMap, id -1 by the map in both; they hold blocks of 8 bytes at
\* different offsets
C23_Witness ==
  /\ arCount = 3
  /\ area.blockInfoArr # <<>> /\ At(area.blockInfoArr, 0).valid
  /\ -1 \in DOMAIN area.blockInfosById
  /\ 0 \in DOMAIN areaMap.blockInfosById
  /\ byteSize(area, 0) = 8 /\ byteSize(area, -1) = 8
  /\ byteOffset(area, 0) = 8 /\ byteOffset(area, -1) = 0
  /\ Absent(areaMap, 2)

\* C25: releaseLastRequest called directly after a successful
\* request(id, size) or request(size), for any id (positive, zero or
\* negative), makes that block absent and resets the used bytes to their
\* value before the request; called when there is no last request it
\* changes nothing.
C25_Step ==
  (arCall'.op = "releaseLastRequest" /\ arCount' = arCount + 1) =>
     /\ (arCall.op \in {"request", "requestBytes"} /\ ~area.d.null) =>
          /\ Absent(area', arCall.firstID)
          /\ area'.usedBytes = area.usedBytes - arCall.nBytes
     /\ area.lastID = missINT32 => area' = area

C25_ReleaseLast == [][C25_Step]_vars

\* C27: after any sequence of place, request, requestMulti, releaseRequest
\* and releaseLastRequest calls, every allocation having succeeded, any two
\* valid blocks of positive size with different ids occupy disjoint byte
\* ranges and every valid block lies inside the allocated capacity.
C27_BlocksDisjointInCapacity ==
  ~arCall.allocFailed =>
     /\ \A id1, id2 \in ProbeIds :
          (/\ id1 # id2
           /\ byteSize(area, id1) > 0
           /\ byteSize(area, id2) > 0) => BlocksDisjoint(area, id1, id2)
     /\ \A id \in ProbeIds :
          blockInfoValue(area, id).valid =>
            /\ BlockInBuffer(area, id)
            /\ byteSize(area, id) <= area.totalBytes - byteOffset(area, id)

(***************************************************************************)
(* RRandomVar::evaluate and variance().  mu and var are exact fractions;   *)
(* the rounding of double arithmetic, the reason for the qMax(0.,..) in    *)
(* the code, is not part of the model.                                     *)
(***************************************************************************)
\* the loop of evaluate from index i on; acc holds s, s2, n, minVal, maxVal
RECURSIVE evaluateLoop(_, _, _)
evaluateLoop(r, i, acc) ==
  IF i >= r.valCount THEN acc
  ELSE IF At(r.vals, i) # r.missVal
       THEN evaluateLoop(r, i + 1,
              [s  |-> acc.s + At(r.vals, i),
               s2 |-> acc.s2 + At(r.vals, i) * At(r.vals, i),
               n  |-> acc.n + 1,
               maxVal |-> IF At(r.vals, i) > acc.maxVal THEN At(r.vals, i)
                          ELSE acc.maxVal,
               minVal |-> IF At(r.vals, i) < acc.minVal THEN At(r.vals, i)
                          ELSE acc.minVal])
       ELSE evaluateLoop(r, i + 1, acc)

\* qMax(0., x) for a fraction x with positive denominator
RatMax0(x) == IF x.num < 0 THEN Rat(0, 1) ELSE x

\* an evaluate that divides the sum of squares by n
evaluatePopulation(r) ==
  IF r.nonMissCount > -1 THEN r
  ELSE LET acc == evaluateLoop(r, 0, [s |-> 0, s2 |-> 0, n |-> 0,
                                      minVal |-> Huge, maxVal |-> -Huge])
       IN  IF acc.n > 0
           THEN [r EXCEPT !.nonMissCount = acc.n,
                          !.minVal = acc.minVal, !.maxVal = acc.maxVal,
                          !.mu = Rat(acc.s, acc.n),
                          !.var = IF acc.n > 1
                                  THEN RatMax0(Rat(acc.s2 * acc.n - acc.s * acc.s,
                                                   acc.n * acc.n))
                                  ELSE @]
           ELSE [r EXCEPT !.nonMissCount = acc.n,
                          !.minVal = r.missVal, !.maxVal = r.missVal]

\* RRandomVar::evaluate: mu = s/sn, var = qMax(0., (s2-s*mu)/(sn-1.))
evaluate(r) ==
  IF r.nonMissCount > -1 THEN r
  ELSE LET acc == evaluateLoop(r, 0, [s |-> 0, s2 |-> 0, n |-> 0,
                                      minVal |-> Huge, maxVal |-> -Huge])
       IN  IF acc.n > 0
           THEN [r EXCEPT !.nonMissCount = acc.n,
                          !.minVal = acc.minVal, !.maxVal = acc.maxVal,
                          !.mu = Rat(acc.s, acc.n),
                          !.var = IF acc.n > 1
                                  THEN RatMax0(Rat(acc.s2 * acc.n - acc.s * acc.s,
                                                   acc.n * (acc.n - 1)))
                                  ELSE @]
           ELSE [r EXCEPT !.nonMissCount = acc.n,
                          !.minVal = r.missVal, !.maxVal = r.missVal]

\* RRandomVar::variance(): the object after the call and the returned value
variance(r) ==
  LET r1 == IF r.nonMissCount = -1 THEN evaluate(r) ELSE r
  IN  [rv |-> r1, ret |-> r1.var]

\* RRandomVar::mean()
mean(r) ==
  LET r1 == IF r.nonMissCount = -1 THEN evaluate(r) ELSE r
  IN  [rv |-> r1, ret |-> r1.mu]

RvFrame ==
  UNCHANGED <<qfVars, collVars, pool, edVars, area, arCall, arCount,
              areaMap, edMem, edStep>>

\* rvOut collects the call and the value returned
RvVariance ==
  /\ Len(rvOut) < 2
  /\ rv' = variance(rv).rv
  /\ rvOut' = Append(rvOut, [call |-> "variance", ret |-> variance(rv).ret])
  /\ RvFrame

RvMean ==
  /\ Len(rvOut) < 2
  /\ rv' = mean(rv).rv
  /\ rvOut' = Append(rvOut, [call |-> "mean", ret |-> mean(rv).ret])
  /\ RvFrame

SpecVariance == RvInit /\ [][RvVariance \/ RvMean]_vars

\* sum over the non-missing values v of (n*v - s)^2, from index i on
RECURSIVE ScaledSquares(_, _, _, _)
ScaledSquares(vals, i, n, s) ==
  IF i > Len(vals) THEN 0
  ELSE (n * vals[i] - s) * (n * vals[i] - s) + ScaledSquares(vals, i + 1, n, s)

\* the sample variance of two or more values: the sum of the squared
\* deviations from the mean, divided by n-1
SampleVariance(vals) ==
  LET n == Len(vals)
  IN  Rat(ScaledSquares(vals, 1, n, SumOf(vals, 1)), n * n * (n - 1))

VarianceReturns == {k \in 1..Len(rvOut) : rvOut[k].call = "variance"}

\* C24 as stated: variance returns the sentinel when the number n of
\* non-missing values is below 1, and for every n >= 1 the sample variance
\* (divisor n-1) clamped to >= 0, never the sentinel.
C24_VarianceFromOne ==
  \A k \in VarianceReturns :
    IF Len(ValidVals) < 1
    THEN RatEq(rvOut[k].ret, RatOfInt(rv.missVal))
    ELSE /\ ~RatEq(rvOut[k].ret, RatOfInt(rv.missVal))
         /\ ~RatLtInt(rvOut[k].ret, 0)
         /\ Len(ValidVals) >= 2 =>
              RatEq(rvOut[k].ret, SampleVariance(ValidVals))

\* C24: variance returns the sentinel when the number n of non-missing
\* values is below 2, and for every n >= 2 the sample variance (divisor
\* n-1), which is >= 0 and not the sentinel.
C24_VarianceFromTwo ==
  \A k \in VarianceReturns :
    IF Len(ValidVals) < 2
    THEN RatEq(rvOut[k].ret, RatOfInt(rv.missVal))
    ELSE /\ ~RatEq(rvOut[k].ret, RatOfInt(rv.missVal))
         /\ ~RatLtInt(rvOut[k].ret, 0)
         /\ RatEq(rvOut[k].ret, SampleVariance(ValidVals))
         /\ rv.vals = <<2, missDOUBLE, 4, 6>> => RatEq(rvOut[k].ret, Rat(4, 1))

\* variance was called after mean on an array with a missing
\* value and three different values
C24_Witness ==
  /\ rv.vals = <<2, missDOUBLE, 4, 6>>
  /\ Len(rvOut) = 2
  /\ rvOut[1].call = "mean" /\ rvOut[2].call = "variance"
  /\ RatEq(rvOut[2].ret, Rat(4, 1))
  /\ rv.nonMissCount = 3

(***************************************************************************)
(* Claims about the list returned by collateStations as a whole.           *)
(***************************************************************************)
\* the number of positions of list that hold x
Occurrences(list, x) == Cardinality({i \in 1..Len(list) : list[i] = x})

\* C26: each id of the input list is contained in exactly one Station of
\* the list returned by collateStations, and once in it: no id is lost in
\* the label, proximity, merge or auto-label pass and none is duplicated.
C26_NoIdLostOrDuplicated ==
  pc = "done" =>
    \A id \in EventIds :
      /\ Cardinality(ResultHolding(id)) = 1
      /\ \A k \in ResultHolding(id) : Occurrences(sl[k].ids, id) = 1

(***************************************************************************)
(* One event whose data items carry well-formed extended names             *)
(* (name::barcode) and an extended name with a second "::".                *)
(***************************************************************************)
NameItems ==
  { [bodcBottleNumber |-> b, cellSampleId |-> "", parameter |-> p,
     parameterValue |-> v, standardDevValue |-> 3, flag |-> "2",
     pressure |-> 10 * b, depth |-> 10 * b] :
    b \in {1, 2}, v \in {2, missDOUBLE},
    p \in { <<"P", "_BOTTLE", "::", "b1">>,
            <<"P", "_BOTTLE", "::", "b1", "::", "x">>,
            <<"P", "_PUMP", "::", "b1">> } }

NamesInit ==
  /\ QfIdle /\ CollIdle /\ pool = <<>> /\ ArIdle
  /\ edIn \in { [items |-> it, unifiedPrms |-> u, cruiseLbl |-> "A"] :
                it \in [1..2 -> NameItems], u \in BOOLEAN }
  /\ ed = <<>>
  /\ edCalls = -1
  /\ edOut = <<>>
  /\ infoWrites = <<>>

SpecEDNames == NamesInit /\ [][EdNext]_vars

\* the slot ids that have blocks in the arenas of e
AllocatedIds(e) == DOMAIN e.dblData

\* the contributors of uPrmName, as indices, whose extended name getValues
\* cannot resolve
Unresolved(e, uPrmName) ==
  LET pn == paramNamesForUPrmName(e, uPrmName)
  IN  { i \in 0..(Len(pn.barcodes) - 1) :
          dataIdFromExtendedName(e,
            JoinExtended(At(pn.prmNames, i), At(pn.barcodes, i)),
            e.unifiedPrms) = -1 }

\* the data items of the event that the fill loop of the constructor can
\* resolve
ResolvedItems(e) ==
  SelectSeq(edIn.items,
            LAMBDA di : dataIdFromExtendedName(e, di.parameter, e.unifiedPrms) # -1)

\* e with the arrays as they are before the fill loop
BeforeFill(e) ==
  [e EXCEPT !.dblData = [id \in DOMAIN @ |-> [k \in DOMAIN @[id] |-> missDOUBLE]],
            !.errData = [id \in DOMAIN @ |-> [k \in DOMAIN @[id] |-> missDOUBLE]],
            !.qfData = [id \in DOMAIN @ |-> [k \in DOMAIN @[id] |-> "0"]]]

\* C28: the 'not found' result of dataIdFromExtendedName is no slot id of
\* the arenas, so a contributor that getValues cannot resolve is read from
\* no block (a quantity with only such contributors has no value), and a
\* data item the constructor cannot resolve is written to no block (the
\* arrays are those filled from the resolved items alone).
C28_NotFoundIsNoSlot ==
  /\ edCalls >= 1 =>
       LET u == edOut.call.uPrmName
       IN  Unresolved(ed, u) # {} =>
             /\ -1 \notin AllocatedIds(ed)
             /\ Cardinality(Unresolved(ed, u))
                  = Len(paramNamesForUPrmName(ed, u).barcodes)
                => edOut.out.val = missDOUBLE
  /\ edCalls = 0 => ed = FillLoop(BeforeFill(ed), ResolvedItems(ed), 1)

(***************************************************************************)
(* The info files of several events of one cruise: the loop over the       *)
(* events of ParamSet::writeSpreadsheetFile, one turn per step.  All info  *)
(* files go to the same directory; infoWrites lists the files written, in  *)
(* order, with the extended names each file names as originators.          *)
(***************************************************************************)
\* EventData::writeInfoFile: the file written
writeInfoFile(e, fn, prmName, idxList) ==
  LET uPrmName    == IF e.unifiedPrms THEN unifiedNameLabel(prmName) ELSE prmName
      extPrmNames == MapValue(e.extPrmNamesByUPrmName, uPrmName)
  IN  [fn |-> fn, uPrmName |-> uPrmName,
       originators |-> [i \in 1..Len(idxList) |-> At(extPrmNames, idxList[i])]]

\* the info file written by the call getValues(uPrmName, smplIdx), if any
getValuesInfoFile(e, uPrmName, smplIdx) ==
  LET pn == paramNamesForUPrmName(e, uPrmName)
      contribCount == Len(pn.barcodes)
  IN  IF contribCount = 0 THEN <<>>
      ELSE LET c == CollectLoop(e, pn, smplIdx,
                      [contribIdxs |-> <<>>, vals |-> <<>>, errs |-> <<>>,
                       qfs |-> <<>>], 0)
               prmName == At(pn.prmNames, contribCount - 1)
           IN  IF Len(c.vals) > 0
               THEN <<writeInfoFile(e, infoFileName(e, prmName, c.contribIdxs),
                                    prmName, c.contribIdxs)>>
               ELSE <<>>

\* the info files written by the calls from call number n on
RECURSIVE InfoFilesFrom(_, _)
InfoFilesFrom(e, n) ==
  IF n >= Len(LineCalls(e, ParamNames(e.unifiedPrms), 0)) THEN <<>>
  ELSE getValuesInfoFile(e, callAt(e, n).uPrmName, callAt(e, n).smplIdx)
       \o InfoFilesFrom(e, n + 1)

EventItems ==
  { [bodcBottleNumber |-> 1, cellSampleId |-> "", parameter |-> p,
     parameterValue |-> v, standardDevValue |-> 3, flag |-> "2",
     pressure |-> 10, depth |-> 10] :
    v \in {2, missDOUBLE},
    p \in { <<"P", "_BOTTLE", "::", "b1">>, <<"P", "_BOTTLE", "::", "b2">>,
            <<"P", "_PUMP", "::", "b1">> } }

\* edIn.events holds the item lists of the events still to be written
EventsInit ==
  /\ QfIdle /\ CollIdle /\ pool = <<>> /\ ArIdle
  /\ edIn \in { [events |-> <<it1, it2>>, unifiedPrms |-> u, cruiseLbl |-> "A"] :
                it1 \in [1..2 -> EventItems], it2 \in [1..2 -> EventItems],
                u \in BOOLEAN }
  /\ ed = <<>>
  /\ edCalls = -1
  /\ edOut = <<>>
  /\ infoWrites = <<>>

\* one turn of the loop: EventData ed(...); ed.spreadsheetDataLines()
EventsWrite ==
  /\ edIn.events # <<>>
  /\ ed' = EventData(edIn.cruiseLbl, Head(edIn.events), edIn.unifiedPrms)
  /\ infoWrites' = infoWrites \o InfoFilesFrom(ed', 0)
  /\ edIn' = [edIn EXCEPT !.events = Tail(@)]
  /\ UNCHANGED <<edCalls, edOut, qfVars, collVars, pool, arVars>>

SpecEvents == EventsInit /\ [][EventsWrite]_vars

\* the set of the elements of a list
Range(list) == {list[i] : i \in 1..Len(list)}

\* C29: the name of an info file determines the contributors: whenever two
\* reconciliations for events of one cruise get the same name, the files
\* written for them name the same set of extended parameter names, so a
\* file written later never replaces one with different content.
C29_NameDeterminesContributors ==
  \A i, j \in 1..Len(infoWrites) :
    infoWrites[i].fn = infoWrites[j].fn =>
      Range(infoWrites[i].originators) = Range(infoWrites[j].originators)

(***************************************************************************)
(* Claims about the sample index as a map of (bottle, cell) pairs.         *)
(***************************************************************************)
\* the (bottle number, cell-sample id) pairs of the data items of the event
InputSamples ==
  { <<edIn.items[i].bodcBottleNumber, edIn.items[i].cellSampleId>> :
      i \in 1..Len(edIn.items) }

\* C30: sampleId maps the different (bottle number, cell-sample id) pairs of
\* the event's data items, those with an empty cell-sample id included, to
\* different sample indices inside 0 .. total-1.
C30_SampleIdInjective ==
  edCalls >= 0 =>
    /\ \A x \in InputSamples :
         sampleId(ed, x[1], x[2]) \in 0..(Len(ed.dblData[pressureID]) - 1)
    /\ \A x, y \in InputSamples :
         x # y => sampleId(ed, x[1], x[2]) # sampleId(ed, y[1], y[2])
====
